---------------------------- MODULE Spec2Model ----------------------------
(***************************************************************************)
(* HTTP gateway handlers of hololinked (daqpy).                            *)
(*                                                                         *)
(* Two generations of handlers are modelled:                               *)
(*   - protocols/http/server/handlers.py : BaseHandler, RPCHandler,        *)
(*     PropertyHandler, ActionHandler, EventHandler, ThingsHandler,        *)
(*     StopHandler (the "current" handlers);                               *)
(*   - server/handlers.py : BaseHandler.prepare_arguments and RPCHandler   *)
(*     (the "older" handlers).                                             *)
(*                                                                         *)
(* One behaviour is the life of one HTTP request: Init draws the server    *)
(* configuration, the resource descriptor and the request; the actions are *)
(* the handler coroutines, cut at their awaits.  The handler object is     *)
(* taken as constructed (its fields hold the server's values).             *)
(***************************************************************************)
EXTENDS Integers, Sequences, FiniteSets, TLC

VARIABLES
    handler,          \* class of the handler serving the request
    allowed_clients,  \* self.allowed_clients : the origin allow-list
    resource,         \* self.resource : the resource descriptor
    request,          \* self.request : method, Origin header, body, query_arguments
    exchange,         \* what zmq_client_pool.async_execute does on its 1st, 2nd, ... call
    pc,               \* position of the handler coroutine
    authorized,       \* result of the has_access_control evaluation ("unknown" before)
    response,         \* status, headers, written body chunks, number of finish() calls
    effects,          \* what the handler did to its collaborators
    consumer,         \* the event consumer of an event tunnel
    owner_inst,       \* the owning HTTPServer: schema validator, in-process event context
    assembled,        \* results of the argument-assembly functions called on their own
    tunnels,          \* the event tunnels open at the same time on one event, and the clock
    inflight,         \* the handler coroutines of requests served at the same time
    codec,            \* the serializers: their replacement registries and the last call
    connecting,       \* connect_to_remote_object of the older handlers: clients, position, log
    logger            \* the RemoteAccessHandler: histories, diff_logs, pusher threads

vars == <<handler, allowed_clients, resource, request, exchange, pc, authorized,
          response, effects, consumer, owner_inst, assembled, tunnels,
          inflight, codec, connecting, logger>>

-----------------------------------------------------------------------------
(* Bounds of the model *)

\* longest list of values one query parameter carries
MaxQueryVals == 2
\* number of async_execute calls whose outcome the environment fixes ahead
MaxAttempts == 2
\* number of receive polls an event tunnel is followed for
MaxPolls == 3
\* event tunnels opened on one event, and milliseconds the clock advances
MaxTunnels == 3
MaxClock == 2
\* requests on one resource served at the same time
MaxRequests == 2
\* clients connect_to_remote_object is called with
MaxClients == 2
\* log records emitted
MaxRecords == 3
\* calls of push_events
MaxCalls == 2

-----------------------------------------------------------------------------
(* Python / JSON values.  Every value is a record of the same shape, so    *)
(* that values of different Python types can be compared.                  *)

NoMap == [x \in {} |-> 0]

JVal(k, n, items, map) == [k |-> k, n |-> n, items |-> items, map |-> map]
JInt(n)      == JVal("int", n, <<>>, NoMap)
JBool(b)     == JVal("bool", IF b THEN 1 ELSE 0, <<>>, NoMap)
JList(items) == JVal("list", 0, items, NoMap)
JDict(map)   == JVal("dict", 0, <<>>, map)
PyNone       == JVal("None", 0, <<>>, NoMap)
\* the tornado request object, injected under 'request' when the resource asks for it
RequestObject == JVal("HTTPServerRequest", 0, <<>>, NoMap)

\* Python's `None` for a missing Origin header
NoOrigin == "None"

Merge(f, g) == [x \in (DOMAIN f) \cup (DOMAIN g) |-> IF x \in DOMAIN g THEN g[x] ELSE f[x]]
Without(f, ks) == [x \in (DOMAIN f) \ ks |-> f[x]]
Put(f, key, v) == [x \in (DOMAIN f) \cup {key} |-> IF x = key THEN v ELSE f[x]]
Get(f, key, default) == IF key \in DOMAIN f THEN f[key] ELSE default

-----------------------------------------------------------------------------
(* Request inputs: bodies and query strings as they arrive on the wire.    *)
(* A wire token is a piece of JSON text; a body is empty, a JSON object    *)
(* whose member values are tokens, a JSON array, or malformed text.        *)

ReservedKeys == {"fetch_execution_logs", "timeout"}
BusinessKeys == {"a", "b", "c"}
Keys == BusinessKeys \cup ReservedKeys

\* query parameters the inputs repeat (?c=3&c=4)
MultiKeys == {"c", "timeout"}

BadToken == "{oops"
TokensFor(key) ==
    CASE key = "a" -> {"1", "2"}
      [] key = "b" -> {"2"}
      [] key = "c" -> {"3", "4"}
      [] key = "timeout" -> {"-1", "5"}
      [] key = "fetch_execution_logs" -> {"true"}

SeqsUpTo(S, n) == UNION {[1..m -> S] : m \in 1..n}

RECURSIVE MapsOn(_, _)
MapsOn(d, rng) ==
    IF d = {} THEN {NoMap}
    ELSE LET x == CHOOSE y \in d : TRUE
         IN  {Put(f, x, v) : f \in MapsOn(d \ {x}, rng), v \in rng[x]}

PartialMaps(rng) == UNION {MapsOn(d, rng) : d \in SUBSET DOMAIN rng}

EmptyBody   == [shape |-> "empty", members |-> NoMap]
ArrayBody   == [shape |-> "array", members |-> NoMap]
InvalidBody == [shape |-> "invalid", members |-> NoMap]
ObjectBody(members) == [shape |-> "object", members |-> members]

BodyTokens(key) == IF key = "a" THEN {"1"} ELSE TokensFor(key)
ArgBodies ==
    {EmptyBody, ArrayBody, InvalidBody}
      \cup {ObjectBody(m) : m \in PartialMaps([x \in {"a", "timeout", "fetch_execution_logs"} |-> BodyTokens(x)])}

QueryTokens(key) == IF key = "a" THEN {"2"} ELSE TokensFor(key)
QueryVals(key) ==
    IF key \in MultiKeys THEN SeqsUpTo(QueryTokens(key), MaxQueryVals)
                         ELSE {<<t>> : t \in QueryTokens(key)}
ArgQueries ==
    PartialMaps([x \in Keys |-> QueryVals(x)]) \cup {[x \in {"a"} |-> <<BadToken>>]}

-----------------------------------------------------------------------------
(* Serializer: JSONSerializer.loads (msgspec json.decode) on wire text.    *)

\* the value a token decodes to; the malformed token raises in loads
Decode(tok) ==
    CASE tok = "1" -> JInt(1)
      [] tok = "2" -> JInt(2)
      [] tok = "3" -> JInt(3)
      [] tok = "4" -> JInt(4)
      [] tok = "5" -> JInt(5)
      [] tok = "-1" -> JInt(-1)
      [] tok = "true" -> JBool(TRUE)

\* loads(body) for a well-formed body
loads(body) ==
    CASE body.shape = "object" -> JDict([x \in DOMAIN body.members |-> Decode(body.members[x])])
      [] body.shape = "array" -> JList(<<JInt(1), JInt(2)>>)

Raised(name) == [exc |-> name, ret |-> <<>>]
Returned(v)  == [exc |-> "", ret |-> v]

QueryDecodes(query) == \A key \in DOMAIN query : \A i \in 1..Len(query[key]) : query[key][i] # BadToken

\* lines 94-98 (and 43-47 of the older handler): one value -> that value, several -> the list
QueryArguments(query) ==
    [key \in DOMAIN query |->
        IF Len(query[key]) = 1 THEN Decode(query[key][1])
        ELSE JList([i \in 1..Len(query[key]) |-> Decode(query[key][i])])]

\* `timeout < 0` : defined between numbers only (bool is an int in Python)
IsNumber(v) == v.k \in {"int", "bool"}

\* BaseHandler.get_execution_parameters: returns a 3-tuple (arguments, context, timeout)
get_execution_parameters(req, res) ==
    IF req.body.shape = "invalid" THEN Raised("DecodeError")
    ELSE LET arguments0 == IF req.body.shape = "empty" THEN JDict(NoMap) ELSE loads(req.body)
         IN  IF arguments0.k = "dict"
             THEN IF ~QueryDecodes(req.query) THEN Raised("DecodeError")
                  ELSE LET merged  == Merge(arguments0.map, QueryArguments(req.query))
                           context == [x \in {"fetch_execution_logs"} |->
                                          Get(merged, "fetch_execution_logs", JBool(FALSE))]
                           popped  == Without(merged, ReservedKeys)
                           timeout == Get(merged, "timeout", PyNone)
                       IN  IF timeout # PyNone /\ ~IsNumber(timeout) THEN Raised("TypeError")
                           ELSE Returned(<<
                                  JDict(IF res.request_as_argument
                                        THEN Put(popped, "request", RequestObject) ELSE popped),
                                  context,
                                  IF timeout # PyNone /\ timeout.n < 0 THEN PyNone ELSE timeout >>)
             ELSE Returned(<<arguments0, NoMap, JInt(5)>>)

\* older BaseHandler.prepare_arguments: query first, then the body is laid over it
prepare_arguments(req) ==
    IF ~QueryDecodes(req.query) THEN Raised("DecodeError")
    ELSE LET arguments == QueryArguments(req.query)
         IN  CASE req.body.shape = "empty" -> Returned(arguments)
               [] req.body.shape = "invalid" -> Raised("DecodeError")
               [] req.body.shape = "array" -> Raised("TypeError")
               [] req.body.shape = "object" -> Returned(Merge(arguments, loads(req.body).map))

-----------------------------------------------------------------------------
(* The HTTP response under construction (tornado.web.RequestHandler).      *)

ACAO == "Access-Control-Allow-Origin"

set_status(rsp, code)       == [rsp EXCEPT !.status = code]
set_header(rsp, name, value) == [rsp EXCEPT !.headers = Put(@, name, value)]
write(rsp, chunk)           == [rsp EXCEPT !.body = Append(@, chunk)]
finish(rsp)                 == [rsp EXCEPT !.finished = @ + 1]
\* await self.flush(): what was written so far goes out; on a closed client stream the
\* flush raises StreamClosedError (ok = FALSE)
flush(rsp, ok) == [rsp EXCEPT !.flushed = Append(@, [at |-> Len(rsp.body), ok |-> ok])]

\* serializer.dumps({"exception" : format_exception_as_json(ex)})
ExceptionBody(exc) == "{exception: " \o exc \o "}"

\* The handler's view while it runs: response, effects, authorization, position.
Running == [rsp |-> response, eff |-> effects, auth |-> authorized, pc |-> pc]

\* the coroutine returned to tornado / an exception left it
Return(m)       == [m EXCEPT !.pc = "done"]
Escape(m, exc)  == [m EXCEPT !.pc = "escaped", !.eff.escaped = exc]

-----------------------------------------------------------------------------
(* BaseHandler (current handlers) *)

\* has_access_control that echoes the request's origin under an empty allow-list too
has_access_control_echo_only(m) ==
    IF Cardinality(allowed_clients) = 0
    THEN [ok |-> TRUE, m |-> [m EXCEPT !.rsp = set_header(@, ACAO, request.origin), !.auth = "yes"]]
    ELSE IF request.origin # NoOrigin
            /\ (request.origin \in allowed_clients \/ (request.origin \o "/") \in allowed_clients)
         THEN [ok |-> TRUE, m |-> [m EXCEPT !.rsp = set_header(@, ACAO, request.origin), !.auth = "yes"]]
         ELSE [ok |-> FALSE, m |-> [m EXCEPT !.auth = "no"]]

\* has_access_control that compares the origin verbatim only
has_access_control_verbatim(m) ==
    IF Cardinality(allowed_clients) = 0
    THEN [ok |-> TRUE, m |-> [m EXCEPT !.rsp = set_header(@, ACAO, "*"), !.auth = "yes"]]
    ELSE IF request.origin # NoOrigin /\ request.origin \in allowed_clients
         THEN [ok |-> TRUE, m |-> [m EXCEPT !.rsp = set_header(@, ACAO, request.origin), !.auth = "yes"]]
         ELSE [ok |-> FALSE, m |-> [m EXCEPT !.auth = "no"]]

\* BaseHandler.has_access_control: a property that also sets the CORS header
has_access_control(m) ==
    IF Cardinality(allowed_clients) = 0
    THEN [ok |-> TRUE, m |-> [m EXCEPT !.rsp = set_header(@, ACAO, "*"), !.auth = "yes"]]
    ELSE LET origin == request.origin
         IN  IF origin # NoOrigin
                /\ (origin \in allowed_clients \/ (origin \o "/") \in allowed_clients)
             THEN [ok |-> TRUE, m |-> [m EXCEPT !.rsp = set_header(@, ACAO, origin), !.auth = "yes"]]
             ELSE [ok |-> FALSE, m |-> [m EXCEPT !.auth = "no"]]

\* BaseHandler.set_access_control_allow_headers
set_access_control_allow_headers(rsp) ==
    set_header(rsp, "Access-Control-Allow-Headers", "<request header names>")

-----------------------------------------------------------------------------
(* RPCHandler (current handlers) *)

\* RPCHandler.set_headers
RPC_set_headers(rsp) ==
    set_header(set_header(rsp, "Content-Type", "application/json"),
               "Access-Control-Allow-Credentials", "true")

\* options that answers 204 without looking at the origin
RPC_options_unguarded(m) ==
    Return([m EXCEPT !.rsp =
            finish(set_header(
                     set_header(set_access_control_allow_headers(set_status(@, 204)),
                                "Access-Control-Allow-Credentials", "true"),
                     "Access-Control-Allow-Methods", resource.supported_methods))])

\* RPCHandler.options
RPC_options(m) ==
    LET a == has_access_control(m)
    IN  Return([a.m EXCEPT !.rsp =
            finish(IF a.ok
                   THEN set_header(
                          set_header(set_access_control_allow_headers(set_status(@, 204)),
                                     "Access-Control-Allow-Credentials", "true"),
                          "Access-Control-Allow-Methods", resource.supported_methods)
                   ELSE set_status(@, 401))])

\* self.get_payload() of line 180: neither the handler classes of this file nor
\* tornado's RequestHandler define it, so the attribute lookup raises
get_payload(req) == Raised("AttributeError")

\* lines 181-182: schema validation on the client side, when configured and enabled
Validate(payload) ==
    IF owner_inst.schema_validator # "None" /\ owner_inst.validate_schema_on_client
       /\ owner_inst.schema_validator = "rejects"
    THEN "ValidationError" ELSE ""

\* the k-th call of zmq_client_pool.async_execute ends as the environment decided
ExchangeOutcome(k) == exchange[IF k <= Len(exchange) THEN k ELSE Len(exchange)]

Envelope(operation, payload, server_context, thing_context, timeout) ==
    [thing_id |-> resource.thing_id, objekt |-> resource.name, operation |-> operation,
     payload |-> payload, server_execution_context |-> server_context,
     thing_execution_context |-> thing_context, timeout |-> timeout]

\* lines 209-212 without the finish() of line 212
RPC_respond_unfinished(m, reply) ==
    LET h == RPC_set_headers(m.rsp)
    IN  Return([m EXCEPT !.rsp = IF reply # "" THEN write(h, reply) ELSE h])

\* lines 209-212: headers, body if the reply is truthy, finish
RPC_respond(m, reply) ==
    LET h == RPC_set_headers(m.rsp)
    IN  Return([m EXCEPT !.rsp = finish(IF reply # "" THEN write(h, reply) ELSE h)])

\* lines 204-208: `except Exception`
RPC_except_Exception(m, exc) ==
    RPC_respond([m EXCEPT !.rsp = set_status(@, 500)], ExceptionBody(exc))

\* RPCHandler.handle_through_thing, lines 177-191: the try body up to the await.
\* Line 179 binds TWO names to what get_execution_parameters returns, which is a
\* 3-tuple on each of its return paths (lines 105, 106): Python raises ValueError
\* ("too many values to unpack") there, before get_payload and async_execute.
handle_through_thing(operation, m) ==
    LET params == get_execution_parameters(request, resource)
        unpack == IF params.exc # "" THEN params.exc
                  ELSE IF Len(params.ret) # 2 THEN "ValueError" ELSE ""
        pay    == get_payload(request)
        raised == IF unpack # "" THEN unpack
                  ELSE IF pay.exc # "" THEN pay.exc
                  ELSE Validate(pay.ret[1])
    IN  IF raised # ""
        THEN RPC_except_Exception(m, raised)
        ELSE [m EXCEPT !.pc = "await_async_execute",
                       !.eff.dispatches = Append(@,
                            Envelope(operation, pay.ret[1], params.ret[1], params.ret[2], PyNone))]

\* lines 192-203: what follows the await of async_execute in the current RPCHandler
RPC_after_execute(m, outcome) ==
    CASE outcome \in {"reply", "empty"} ->
            RPC_respond([m EXCEPT !.rsp = set_status(@, 200)],
                        IF outcome = "reply" THEN "<reply bytes>" ELSE "")
      [] outcome = "ConnectionAbortedError" ->
            RPC_respond([m EXCEPT !.rsp = set_status(@, 503),
                                  !.eff.refresh_tasks = @ + 1], "")
      [] outcome = "ConnectionError" ->
            handle_through_thing(m.eff.dispatches[Len(m.eff.dispatches)].operation,
                                 [m EXCEPT !.eff.refreshes = @ + 1])
      [] OTHER -> RPC_except_Exception(m, outcome)

-----------------------------------------------------------------------------
(* PropertyHandler *)

\* is_method_allowed that gates GET and POST only (PUT on a readOnly property passes)
Property_is_method_allowed_put_open(method, m) ==
    LET a == has_access_control(m)
    IN  IF ~a.ok
        THEN [ok |-> FALSE, m |-> [a.m EXCEPT !.rsp = set_status(@, 401)]]
        ELSE IF (method = "GET" /\ resource.writeOnly) \/ method = "POST"
             THEN [ok |-> FALSE, m |-> [a.m EXCEPT !.rsp = finish(set_status(@, 405))]]
             ELSE [ok |-> TRUE, m |-> a.m]

\* PropertyHandler.is_method_allowed.  Python reads the condition of line 225-226 as
\*   (GET and writeOnly) or (POST or (PUT and readOnly))       -- `and` binds tighter
Property_is_method_allowed(method, m) ==
    LET a == has_access_control(m)
    IN  IF ~a.ok
        THEN [ok |-> FALSE, m |-> [a.m EXCEPT !.rsp = set_status(@, 401)]]
        ELSE IF (method = "GET" /\ resource.writeOnly)
                \/ (method = "POST" \/ (method = "PUT" /\ resource.readOnly))
             THEN [ok |-> FALSE, m |-> [a.m EXCEPT !.rsp = finish(set_status(@, 405))]]
             ELSE [ok |-> TRUE, m |-> a.m]

\* the verb table of PropertyHandler.get / post / put / delete
Property_operation(method) ==
    CASE method = "GET"    -> "readProperty"
      [] method = "POST"   -> "writeProperty"
      [] method = "PUT"    -> "writeProperty"
      [] method = "DELETE" -> "deleteProperty"

\* PropertyHandler.get / post / put / delete
Property_verb(method, m) ==
    LET a == Property_is_method_allowed(method, m)
    IN  IF ~a.ok THEN Return(a.m)
        ELSE handle_through_thing(Property_operation(method), a.m)

-----------------------------------------------------------------------------
(* ActionHandler *)

\* ActionHandler.is_method_allowed: the 405 branch is commented out in the source
Action_is_method_allowed(method, m) ==
    LET a == has_access_control(m)
    IN  IF ~a.ok
        THEN [ok |-> FALSE, m |-> [a.m EXCEPT !.rsp = set_status(@, 401)]]
        ELSE [ok |-> TRUE, m |-> a.m]

\* ActionHandler.get / post / put / delete
Action_verb(method, m) ==
    LET a == Action_is_method_allowed(method, m)
    IN  IF ~a.ok THEN Return(a.m)
        ELSE handle_through_thing("invokeAction", a.m)

-----------------------------------------------------------------------------
(* EventHandler (current handlers) *)

\* EventHandler.set_headers
Event_set_headers(rsp) ==
    set_header(set_header(set_header(set_header(rsp,
        "Content-Type", "text/event-stream"), "Cache-Control", "no-cache"),
        "Connection", "keep-alive"), "Access-Control-Allow-Credentials", "true")

\* EventHandler.options
Event_options(m) ==
    LET a == has_access_control(m)
    IN  Return([a.m EXCEPT !.rsp =
            finish(IF a.ok
                   THEN set_header(
                          set_header(set_access_control_allow_headers(set_status(@, 204)),
                                     "Access-Control-Allow-Credentials", "true"),
                          "Access-Control-Allow-Methods", "GET")
                   ELSE set_status(@, 401))])

\* line 406: the consumer class follows the server's in-process context
EventConsumerClass ==
    IF owner_inst.zmq_inproc_event_context # "None" THEN "EventConsumer" ELSE "AsyncEventConsumer"

NoConsumer ==
    [cls |-> "None", open |-> FALSE, polls |-> 0, received |-> <<>>, beat |-> FALSE,
     ran_on |-> "none"]

\* str.startswith
startswith(s, prefix) == Len(s) >= Len(prefix) /\ SubSeq(s, 1, Len(prefix)) = prefix

\* a receive that is awaited on the event loop whatever the consumer class
ReceiveRunsOn_loop(cls) == "event_loop"

\* lines 423-426: the receive of an AsyncEventConsumer is awaited on the event loop,
\* the blocking receive of an EventConsumer is handed to run_in_executor and awaited
ReceiveRunsOn(cls) ==
    IF cls = "AsyncEventConsumer" THEN "event_loop" ELSE "executor"

\* what one receive of the consumer gives: a serialized message, nothing within the
\* poll timeout, or an exception
Messages == {"m1", "m2"}
Receives == Messages \cup {"nothing", "error"}

\* self.data_header % data
DataFrame(data) == "data: " \o data

\* lines 441-445 and 383: leaving the loop, the consumer exits only under an asyncio
\* in-process context; then get() finishes the request
Event_leave(m) == Return([m EXCEPT !.rsp = finish(@)])
ConsumerAfterLoop(c) ==
    IF owner_inst.zmq_inproc_event_context = "zmq.asyncio.Context"
    THEN [c EXCEPT !.open = FALSE] ELSE c

\* one turn of the loop that writes a message only if it differs from the last frame
Event_loop_turn_dedup(m, got, closed) ==
    CASE got = "error" ->
            [m EXCEPT !.rsp = write(@, DataFrame(ExceptionBody("Exception")))]
      [] got = "nothing" ->
            IF closed THEN Event_leave([m EXCEPT !.rsp = flush(@, FALSE)])
            ELSE [m EXCEPT !.rsp = flush(@, TRUE)]
      [] OTHER ->
            LET w == IF m.rsp.body # <<>> /\ m.rsp.body[Len(m.rsp.body)] = DataFrame(got)
                     THEN m ELSE [m EXCEPT !.rsp = write(@, DataFrame(got))]
            IN  IF closed THEN Event_leave([w EXCEPT !.rsp = flush(@, FALSE)])
                ELSE [w EXCEPT !.rsp = flush(@, TRUE)]

\* one turn of the loop without the heartbeat flush
Event_loop_turn_no_heartbeat(m, got, closed) ==
    CASE got = "error" ->
            [m EXCEPT !.rsp = write(@, DataFrame(ExceptionBody("Exception")))]
      [] got = "nothing" -> m
      [] OTHER ->
            LET w == [m EXCEPT !.rsp = write(@, DataFrame(got))]
            IN  IF closed THEN Event_leave([w EXCEPT !.rsp = flush(@, FALSE)])
                ELSE [w EXCEPT !.rsp = flush(@, TRUE)]

\* one turn of the loop in which any exception ends the loop
Event_loop_turn_error_breaks(m, got, closed) ==
    CASE got = "error" ->
            Event_leave([m EXCEPT !.rsp = write(@, DataFrame(ExceptionBody("Exception")))])
      [] got = "nothing" ->
            IF closed THEN Event_leave([m EXCEPT !.rsp = flush(@, FALSE)])
            ELSE [m EXCEPT !.rsp = flush(@, TRUE)]
      [] OTHER ->
            LET w == [m EXCEPT !.rsp = write(@, DataFrame(got))]
            IN  IF closed THEN Event_leave([w EXCEPT !.rsp = flush(@, FALSE)])
                ELSE [w EXCEPT !.rsp = flush(@, TRUE)]

\* one turn of the loop of handle_datastream, lines 421-440: got is what the receive
\* gave, closed tells whether the client stream is closed when the turn flushes
Event_loop_turn(m, got, closed) ==
    CASE got = "error" ->
            \* except Exception: one exception-shaped frame, not flushed, the loop goes on
            [m EXCEPT !.rsp = write(@, DataFrame(ExceptionBody("Exception")))]
      [] got = "nothing" ->
            \* heartbeat flush; StreamClosedError breaks the loop
            IF closed THEN Event_leave([m EXCEPT !.rsp = flush(@, FALSE)])
            ELSE [m EXCEPT !.rsp = flush(@, TRUE)]
      [] OTHER ->
            LET w == [m EXCEPT !.rsp = write(@, DataFrame(got))]
            IN  IF closed THEN Event_leave([w EXCEPT !.rsp = flush(@, FALSE)])
                ELSE [w EXCEPT !.rsp = flush(@, TRUE)]

-----------------------------------------------------------------------------
(* ThingsHandler and StopHandler *)

\* ThingsHandler.get
Things_get(m) == Return([m EXCEPT !.rsp = finish(set_status(@, 404))])

\* ThingsHandler.options
Things_options(m) ==
    LET a == has_access_control(m)
    IN  Return([a.m EXCEPT !.rsp =
            finish(IF a.ok
                   THEN set_header(
                          set_header(set_access_control_allow_headers(set_status(@, 204)),
                                     "Access-Control-Allow-Credentials", "true"),
                          "Access-Control-Allow-Methods", "GET, POST")
                   ELSE set_status(@, 401))])

\* ThingsHandler.post; created / routed: whether create_new and update_router_with_thing
\* return.  set_headers (line 507) is BaseHandler's, which raises NotImplementedError.
Things_post(m, created, routed) ==
    LET a == has_access_control(m)
    IN  IF ~a.ok
        THEN Return([a.m EXCEPT !.rsp = finish(set_status(@, 401))])
        ELSE Escape([a.m EXCEPT
                 !.rsp = set_status(@, IF created /\ routed THEN 204 ELSE 500),
                 !.eff.things_created = @ + (IF created THEN 1 ELSE 0),
                 !.eff.refreshes = @ + (IF created /\ routed THEN 1 ELSE 0)],
               "NotImplementedError")

\* StopHandler.post that schedules the stop before it looks at the origin
Stop_post_unchecked(m) ==
    LET a == has_access_control(m)
    IN  Return([a.m EXCEPT
            !.rsp = finish(IF a.ok
                           THEN set_header(set_status(@, 204),
                                           "Access-Control-Allow-Credentials", "true")
                           ELSE set_status(@, 401)),
            !.eff.stops = @ + 1])

\* StopHandler.post that awaits owner_inst.stop() before it answers
Stop_post_awaits(m) ==
    LET a == has_access_control(m)
    IN  IF ~a.ok
        THEN Return([a.m EXCEPT !.rsp = finish(set_status(@, 401))])
        ELSE Return([a.m EXCEPT
                 !.rsp = finish(set_header(set_status(@, 204),
                                           "Access-Control-Allow-Credentials", "true")),
                 !.eff.stops = @ + 1, !.eff.stopped = @ + 1])

\* StopHandler.post (lines 530-541): call_soon only schedules the task that will run
\* owner_inst.stop(); the handler answers without awaiting it
Stop_post(m) ==
    LET a == has_access_control(m)
    IN  IF ~a.ok
        THEN Return([a.m EXCEPT !.rsp = finish(set_status(@, 401))])
        ELSE Return([a.m EXCEPT
                 !.rsp = finish(set_header(set_status(@, 204),
                                           "Access-Control-Allow-Credentials", "true")),
                 !.eff.stops = @ + 1])

-----------------------------------------------------------------------------
(* Older handlers (server/handlers.py) *)

\* older RPCHandler.has_access_control: `return True` before anything else
Old_has_access_control(m) == [ok |-> TRUE, m |-> [m EXCEPT !.auth = "yes"]]

\* older RPCHandler.set_custom_default_headers
set_custom_default_headers(rsp) ==
    set_header(set_header(set_status(rsp, 200), "Content-Type", "application/json"),
               "Access-Control-Allow-Credentials", "true")

\* lines 114-117: `except Exception` and the write of the reply; the status is left alone
Old_except_Exception(m, exc) == [m EXCEPT !.rsp = write(@, ExceptionBody(exc))]

\* handle_through_remote_object that forwards the arguments without popping `timeout`
handle_through_remote_object_timeout_kept(http_method, m) ==
    IF http_method \notin resource.instructions
    THEN Return([m EXCEPT !.rsp = finish(set_status(@, 404))])
    ELSE LET prep == prepare_arguments(request)
         IN  IF prep.exc # ""
             THEN Return([m EXCEPT !.rsp = finish(write(@, ExceptionBody(prep.exc))),
                                   !.auth = "yes"])
             ELSE [m EXCEPT !.auth = "yes", !.pc = "await_async_execute",
                            !.eff.dispatches = Append(@,
                                Envelope(http_method,
                                         JDict(Without(prep.ret, {"fetch_execution_logs"})),
                                         [x \in {"fetch_execution_logs"} |->
                                             Get(prep.ret, "fetch_execution_logs", JBool(FALSE))],
                                         NoMap, Get(prep.ret, "timeout", PyNone)))]

\* older RPCHandler.handle_through_remote_object, lines 98-110: up to the await
handle_through_remote_object(http_method, m) ==
    IF http_method \notin resource.instructions
    THEN Return([m EXCEPT !.rsp = finish(set_status(@, 404))])
    ELSE LET a    == Old_has_access_control(m)
             prep == prepare_arguments(request)
         IN  IF prep.exc # ""
             THEN Return([Old_except_Exception(a.m, prep.exc) EXCEPT !.rsp = finish(@)])
             ELSE LET context   == [x \in {"fetch_execution_logs"} |->
                                       Get(prep.ret, "fetch_execution_logs", JBool(FALSE))]
                      timeout   == Get(prep.ret, "timeout", PyNone)
                      popped    == Without(prep.ret, ReservedKeys)
                      arguments == IF resource.request_as_argument
                                   THEN Put(popped, "request", RequestObject) ELSE popped
                  IN  [a.m EXCEPT !.pc = "await_async_execute",
                                  !.eff.dispatches = Append(@,
                                      Envelope(http_method, JDict(arguments), context, NoMap, timeout))]

\* older EventHandler.set_headers (lines 128-131)
Old_Event_set_headers(rsp) ==
    set_header(set_header(set_header(rsp,
        "Content-Type", "text/event-stream"), "Cache-Control", "no-cache"),
        "Connection", "keep-alive")

\* one turn of the loop of the older handle_datastream, lines 150-162: a flush only
\* after a data frame, none when the receive gave nothing
Old_Event_loop_turn(m, got, closed) ==
    CASE got = "error" ->
            [m EXCEPT !.rsp = write(@, DataFrame(ExceptionBody("Exception")))]
      [] got = "nothing" -> m
      [] OTHER ->
            LET w == [m EXCEPT !.rsp = write(@, DataFrame(got))]
            IN  IF closed THEN Return([w EXCEPT !.rsp = finish(flush(@, FALSE))])
                ELSE [w EXCEPT !.rsp = flush(@, TRUE)]

\* older handle_datastream, line 163: event_consumer.exit() after the loop
Old_ConsumerAfterLoop(c) == [c EXCEPT !.open = FALSE]

\* ', '.join(self.resource.instructions.keys()), the verbs in their usual order
RECURSIVE JoinMethods(_, _)
JoinMethods(verbs, instructions) ==
    IF verbs = <<>> THEN ""
    ELSE LET rest == JoinMethods(Tail(verbs), instructions)
         IN  IF Head(verbs) \notin instructions THEN rest
             ELSE IF rest = "" THEN Head(verbs) ELSE Head(verbs) \o ", " \o rest

\* older RPCHandler.options (lines 89-94): no access control
Old_options(m) ==
    Return([m EXCEPT !.rsp =
        finish(set_header(
                 set_header(
                   set_header(set_status(@, 204), ACAO, "<clients>"),
                   "Access-Control-Allow-Headers", "*"),
                 "Access-Control-Allow-Methods",
                 JoinMethods(<<"GET", "POST", "PATCH", "PUT", "DELETE">>,
                             resource.instructions)))])

\* lines 111-117, then finish() in put / delete
Old_after_execute(m, outcome) ==
    Return([(CASE outcome = "reply" ->
                    [m EXCEPT !.rsp = write(set_custom_default_headers(@), "<reply bytes>")]
               [] outcome = "empty" ->
                    [m EXCEPT !.rsp = set_custom_default_headers(@)]
               [] OTHER -> Old_except_Exception(m, outcome))
            EXCEPT !.rsp = finish(@)])

\* older RPCHandler.get / post / patch call `handled_through_remote_object`, a name
\* the class does not define (AttributeError); put / delete call the real method
Old_verb(method, m) ==
    IF method \in {"GET", "POST", "PATCH"}
    THEN Escape(m, "AttributeError")
    ELSE handle_through_remote_object(method, m)

-----------------------------------------------------------------------------
(* Initial states: one request to one handler *)

CurrentRPC == {"PropertyHandler", "ActionHandler"}
Handlers ==
    CurrentRPC \cup {"EventHandler", "ThingsHandler", "StopHandler", "OldRPCHandler",
                     "OldEventHandler"}

\* the older handlers hold no allow-list (their has_access_control ignores CORS)
AllowListsOf(h) ==
    IF h \in {"OldRPCHandler", "OldEventHandler"} THEN {{}}
    ELSE {{}, {"https://a.example"}, {"https://a.example/"}}
Origins == {NoOrigin, "https://a.example", "https://a.example/", "https://b.example"}

MethodsOf(h) ==
    CASE h \in CurrentRPC     -> {"GET", "POST", "PUT", "DELETE", "OPTIONS"}
      [] h = "EventHandler"   -> {"GET", "OPTIONS"}
      [] h = "ThingsHandler"  -> {"GET", "POST", "OPTIONS"}
      [] h = "StopHandler"    -> {"POST"}
      [] h = "OldRPCHandler"  -> {"GET", "POST", "PATCH", "PUT", "DELETE", "OPTIONS"}
      [] h = "OldEventHandler" -> {"GET"}

Resource(ro, wo, raa, instr, addr) ==
    [thing_id |-> "thing", name |-> "member", readOnly |-> ro, writeOnly |-> wo,
     request_as_argument |-> raa, supported_methods |-> "GET, PUT",
     instructions |-> instr, socket_address |-> addr]

ResourcesOf(h) ==
    CASE h = "PropertyHandler" ->
            {Resource(ro, wo, FALSE, {}, "") : ro \in BOOLEAN, wo \in BOOLEAN}
      [] h = "ActionHandler" -> {Resource(FALSE, FALSE, raa, {}, "") : raa \in BOOLEAN}
      [] h = "EventHandler" ->
            {Resource(FALSE, FALSE, FALSE, {}, addr) : addr \in {"inproc://event", "tcp://event"}}
      [] h = "OldEventHandler" -> {Resource(FALSE, FALSE, FALSE, {}, "tcp://event")}
      [] h = "OldRPCHandler" ->
            {Resource(FALSE, FALSE, raa, instr, "") :
                raa \in BOOLEAN, instr \in {{"GET", "PUT"}, {"PUT", "DELETE"}}}
      [] OTHER -> {Resource(FALSE, FALSE, FALSE, {}, "")}

\* the request arguments the handlers are driven with
ReqArgs ==
    { <<EmptyBody, NoMap>>,
      <<InvalidBody, NoMap>>,
      <<ObjectBody([x \in {"a"} |-> "1"]),
        [x \in {"a", "c", "timeout"} |->
            CASE x = "a" -> <<"2">> [] x = "c" -> <<"3", "4">> [] x = "timeout" -> <<"-1">>]>>,
      <<ObjectBody([x \in {"a", "fetch_execution_logs", "timeout"} |->
            CASE x = "a" -> "1" [] x = "fetch_execution_logs" -> "true" [] x = "timeout" -> "5"]),
        [x \in {"b"} |-> <<"2">>]>>,
      <<EmptyBody, [x \in {"fetch_execution_logs", "timeout"} |->
            CASE x = "fetch_execution_logs" -> <<"true">> [] x = "timeout" -> <<"5", "5">>]>> }

Request(method, origin, args) ==
    [method |-> method, origin |-> origin, body |-> args[1], query |-> args[2]]

\* the requests that reach get_execution_parameters / prepare_arguments
ReadsArguments(h, method) == h \in CurrentRPC \cup {"OldRPCHandler"} /\ method # "OPTIONS"

ReqArgsOf(h, method) ==
    IF ~ReadsArguments(h, method) THEN {<<EmptyBody, NoMap>>}
    ELSE IF h = "OldRPCHandler" THEN ReqArgs
    ELSE {a \in ReqArgs : a[1].shape # "empty" \/ a[2] = NoMap}

RequestsOf(h) ==
    UNION {{Request(method, origin, args) :
               origin \in Origins,
               args \in ReqArgsOf(h, method)} :
           method \in MethodsOf(h)}

Outcomes == {"reply", "empty", "ConnectionAbortedError", "ConnectionError", "Exception"}

ScriptsOf(h, method) ==
    IF ReadsArguments(h, method) THEN [1..MaxAttempts -> Outcomes] ELSE {<<>>}

Owner(validator, enabled, ctx) ==
    [schema_validator |-> validator, validate_schema_on_client |-> enabled,
     zmq_inproc_event_context |-> ctx]

OwnersOf(h, method) ==
    CASE h \in CurrentRPC /\ method # "OPTIONS" ->
            {Owner("None", TRUE, "None"), Owner("accepts", TRUE, "None"),
             Owner("rejects", TRUE, "None"), Owner("rejects", FALSE, "None")}
      [] h = "EventHandler" ->
            {Owner("None", TRUE, ctx) : ctx \in {"None", "zmq.Context", "zmq.asyncio.Context"}}
      [] OTHER -> {Owner("None", TRUE, "None")}

NotCalled == [exc |-> "not called", ret |-> <<>>]
NothingAssembled == [current |-> NotCalled, older |-> NotCalled]

-----------------------------------------------------------------------------
(* Serializers (server/serializers.py).  A Python object is a record: kind  *)
(* is what isinstance tells of it, cls its exact class, json the string its *)
(* json() method returns ("" when it has none).  Encoded data are records   *)
(* of the token the encoder wrote.                                          *)

PyObj(kind, cls, name, text, n, items, json) ==
    [kind |-> kind, cls |-> cls, name |-> name, text |-> text, n |-> n, items |-> items,
     json |-> json]
PyStr(text)   == PyObj("str", "str", "", text, 0, <<>>, "")
PyInt(n)      == PyObj("int", "int", "", "", n, <<>>, "")
PyList(items) == PyObj("list", "list", "", "", 0, items, "")
PyDict(text)  == PyObj("dict", "dict", "", text, 0, <<>>, "")

Token(tok, text, n, items) == [tok |-> tok, text |-> text, n |-> n, items |-> items]

\* the values the serializers are called with
FallbackObjects ==
    { PyObj("Enum", "Color", "RED", "Color.RED", 1, <<>>, ""),
      PyObj("UUID", "UUID", "", "123e4567-e89b-12d3-a456-426614174000", 0, <<>>, ""),
      PyObj("datetime", "datetime", "", "2024-01-01T00:00:00", 0, <<>>, ""),
      PyObj("date", "date", "", "2024-01-01", 0, <<>>, ""),
      PyObj("Decimal", "Decimal", "", "1.5", 0, <<>>, ""),
      PyObj("set", "set", "", "", 0, <<1, 2>>, "") }
Objects ==
    FallbackObjects \cup
    { PyObj("Enum", "Level", "HIGH", "Level.HIGH", 3, <<>>, "high"),
      PyObj("tuple", "tuple", "", "", 0, <<1, 2>>, ""),
      PyObj("Exception", "ValueError", "", "bad value", 0, <<>>, ""),
      PyObj("object", "Point", "", "Point(1, 2)", 0, <<1, 2>>, ""),
      PyObj("object", "Quantity", "", "Quantity(5)", 0, <<5>>, "5 m"),
      PyStr("abc"), PyInt(7), PyList(<<1, 2>>) }

\* replacement functions a caller registers, and what they return
Replacers == {"to_text", "to_items"}
Apply(fn, obj) == IF fn = "to_text" THEN PyStr(obj.text) ELSE PyList(obj.items)

\* what register_type_replacement is called with: classes, the type `type`, an instance
Classes == {"Point", "Color"}
ObjectTypes == Classes \cup {"type", "an instance"}

\* format_exception_as_json(obj): a dict describing the exception
format_exception_as_json(obj) == PyDict(obj.cls)

\* JSONSerializer.default (lines 94-125), given the class's _type_replacements
JSONSerializer_default(obj, replacements) ==
    CASE obj.json # "" -> Returned(PyStr(obj.json))
      [] obj.kind = "Enum" -> Returned(PyStr(obj.name))
      [] obj.kind \in {"set", "dict_keys", "deque", "tuple"} -> Returned(PyList(obj.items))
      [] obj.kind \in {"UUID", "Decimal", "datetime", "date"} -> Returned(PyStr(obj.text))
      [] obj.kind = "Exception" -> Returned(format_exception_as_json(obj))
      [] obj.cls \in DOMAIN replacements -> Returned(Apply(replacements[obj.cls], obj))
      [] OTHER -> Raised("TypeError")

\* the types msgspec encodes by itself, without calling enc_hook: an enum member by
\* its value, UUID / datetime / date / Decimal as strings, set and tuple as arrays
MsgspecNative == {"str", "int", "list", "dict", "Enum", "UUID", "datetime", "date",
                  "Decimal", "set", "tuple"}
msgspec_encode(obj) ==
    CASE obj.kind = "Enum" -> Token("number", "", obj.n, <<>>)
      [] obj.kind = "int" -> Token("number", "", obj.n, <<>>)
      [] obj.kind \in {"list", "set", "tuple"} -> Token("array", "", 0, obj.items)
      [] obj.kind = "dict" -> Token("object", obj.text, 0, <<>>)
      [] OTHER -> Token("string", obj.text, 0, <<>>)

\* the types the json module of the standard library encodes without calling default
BuiltinJSONNative == {"str", "int", "list", "dict", "tuple"}

\* encoding with a fallback hook: the hook is called for what the encoder does not
\* encode by itself, and what it returns is encoded in its place
EncodeWithHook(obj, native, replacements) ==
    IF obj.kind \in native THEN Returned(msgspec_encode(obj))
    ELSE LET d == JSONSerializer_default(obj, replacements)
         IN  IF d.exc # "" THEN d ELSE Returned(msgspec_encode(d.ret))

\* JSONSerializer.dumps (lines 90-92): json.encode(data, enc_hook=self.default)
JSONSerializer_dumps(obj, replacements) == EncodeWithHook(obj, MsgspecNative, replacements)

\* PythonBuiltinJSONSerializer.dumps (lines 147-150): default=self.default
PythonBuiltinJSONSerializer_dumps(obj, replacements) ==
    EncodeWithHook(obj, BuiltinJSONNative, replacements)

\* MsgpackSerializer.dumps (lines 213-214): msgpack.encode(value), no enc_hook
MsgpackSerializer_dumps(obj) ==
    IF obj.kind \in MsgspecNative THEN Returned(msgspec_encode(obj)) ELSE Raised("TypeError")

\* SerpentSerializer.dumps (lines 183-185) with the classes given to
\* serpent.register_class (lines 192-203); serpent writes any other object of a class
\* as the dict of its state
SerpentSerializer_dumps(obj, serpent_classes) ==
    IF obj.cls \in DOMAIN serpent_classes
    THEN Returned(msgspec_encode(Apply(serpent_classes[obj.cls], obj)))
    ELSE IF obj.kind \in {"object", "Exception"} THEN Returned(Token("object", obj.cls, 0, <<>>))
    ELSE Returned(msgspec_encode(obj))

\* loads (lines 86-88 and the like): the builtin value the encoded token stands for
Serializer_loads(data) ==
    CASE data.tok = "number" -> PyInt(data.n)
      [] data.tok = "array" -> PyList(data.items)
      [] data.tok = "object" -> PyDict(data.text)
      [] OTHER -> PyStr(data.text)

Serializers == {"JSONSerializer", "PythonBuiltinJSONSerializer", "SerpentSerializer",
                "MsgpackSerializer"}
\* the implementations that define register_type_replacement
Registering == {"JSONSerializer", "PythonBuiltinJSONSerializer", "SerpentSerializer"}

NoCall == [op |-> "none", serializer |-> "", type |-> "", fn |-> "", obj |-> PyInt(0),
           exc |-> "", loaded |-> PyInt(0)]
\* _type_replacements = {} (line 80) and serpent's own class registry
NoCodec == [replacements |-> NoMap, serpent_classes |-> NoMap, call |-> NoCall]

\* register_type_replacement that registers whatever it is given
register_type_replacement_unchecked(c, serializer, object_type, replacement_function) ==
    LET called == [NoCall EXCEPT !.op = "register", !.serializer = serializer,
                                 !.type = object_type, !.fn = replacement_function]
    IN  IF serializer = "SerpentSerializer"
        THEN [c EXCEPT !.call = called,
                       !.serpent_classes = Put(@, object_type, replacement_function)]
        ELSE [c EXCEPT !.call = called,
                       !.replacements = Put(@, object_type, replacement_function)]

\* register_type_replacement of the JSON serializers (lines 127-132, one class
\* attribute for both) and of the serpent serializer (lines 191-203)
register_type_replacement(c, serializer, object_type, replacement_function) ==
    LET called == [NoCall EXCEPT !.op = "register", !.serializer = serializer,
                                 !.type = object_type, !.fn = replacement_function]
    IN  IF object_type \notin Classes
        THEN [c EXCEPT !.call = [called EXCEPT !.exc = "ValueError"]]
        ELSE IF serializer = "SerpentSerializer"
        THEN [c EXCEPT !.call = called,
                       !.serpent_classes = Put(@, object_type, replacement_function)]
        ELSE [c EXCEPT !.call = called,
                       !.replacements = Put(@, object_type, replacement_function)]

\* dumps of one implementation, and loads of what it gave
dumps(c, serializer, obj) ==
    CASE serializer = "JSONSerializer" -> JSONSerializer_dumps(obj, c.replacements)
      [] serializer = "PythonBuiltinJSONSerializer" ->
            PythonBuiltinJSONSerializer_dumps(obj, c.replacements)
      [] serializer = "SerpentSerializer" -> SerpentSerializer_dumps(obj, c.serpent_classes)
      [] serializer = "MsgpackSerializer" -> MsgpackSerializer_dumps(obj)

-----------------------------------------------------------------------------
(* RemoteObjectsHandler.connect_to_remote_object (older handlers)           *)

\* the HTTP resources one client reports: route -> what
Routes == {"/a", "/b"}
Replies == PartialMaps([r \in Routes |-> {"EVENT", "PARAMETER"}])

\* before the call
NotConnecting ==
    [clients |-> <<>>, application |-> FALSE, pc |-> "idle", i |-> 0, log |-> <<>>,
     resources |-> NoMap, rules |-> <<>>, exc |-> ""]

\* the call: clients given, `resources = dict()`, the loop in front of its first client
Connecting(clients, application) ==
    [NotConnecting EXCEPT !.clients = clients, !.application = application,
                          !.pc = IF clients = <<>> THEN "add_rules" ELSE "handshake_complete",
                          !.i = IF clients = <<>> THEN 0 ELSE 1]

\* lines 246-249: the routes that get a handler, those that are not events
HandledRoutes(resources) == {r \in DOMAIN resources : resources[r] # "EVENT"}

\* connect_to_remote_object without the await of handshake_complete
connect_to_remote_object_no_handshake(c, ok, reply) ==
    CASE c.pc \in {"handshake_complete", "async_execute"} ->
            IF ~ok THEN [c EXCEPT !.pc = "raised", !.exc = "Exception",
                                  !.log = Append(@, <<"async_execute", c.clients[c.i]>>)]
            ELSE [c EXCEPT !.log = @ \o << <<"async_execute", c.clients[c.i]>>,
                                           <<"resources_read", c.clients[c.i]>> >>,
                           !.resources = Merge(@, reply),
                           !.i = IF c.i < Len(c.clients) THEN c.i + 1 ELSE c.i,
                           !.pc = IF c.i < Len(c.clients) THEN "handshake_complete"
                                  ELSE "add_rules"]
      [] c.pc = "add_rules" ->
            IF c.application
            THEN [c EXCEPT !.pc = "done", !.rules = Append(@, HandledRoutes(c.resources))]
            ELSE [c EXCEPT !.pc = "raised", !.exc = "AttributeError"]

\* connect_to_remote_object (lines 234-278), one coroutine step up to its next await:
\* ok tells whether the awaited call returns or raises, reply is what the client
\* reports.  Nothing in the method catches an exception.
connect_to_remote_object(c, ok, reply) ==
    CASE c.pc = "handshake_complete" ->
            \* line 238: await client.handshake_complete()
            IF ~ok THEN [c EXCEPT !.pc = "raised", !.exc = "Exception"]
            ELSE [c EXCEPT !.pc = "async_execute",
                           !.log = Append(@, <<"handshake_complete", c.clients[c.i]>>)]
      [] c.pc = "async_execute" ->
            \* lines 239-242: the exchange is sent; its reply updates resources
            IF ~ok THEN [c EXCEPT !.pc = "raised", !.exc = "Exception",
                                  !.log = Append(@, <<"async_execute", c.clients[c.i]>>)]
            ELSE [c EXCEPT !.log = @ \o << <<"async_execute", c.clients[c.i]>>,
                                           <<"resources_read", c.clients[c.i]>> >>,
                           !.resources = Merge(@, reply),
                           !.i = IF c.i < Len(c.clients) THEN c.i + 1 ELSE c.i,
                           !.pc = IF c.i < Len(c.clients) THEN "handshake_complete"
                                  ELSE "add_rules"]
      [] c.pc = "add_rules" ->
            \* lines 246-278: handlers built, then application.wildcard_router.add_rules;
            \* `application` is an attribute the class has only if the server assigned it
            IF c.application
            THEN [c EXCEPT !.pc = "done", !.rules = Append(@, HandledRoutes(c.resources))]
            ELSE [c EXCEPT !.pc = "raised", !.exc = "AttributeError"]

-----------------------------------------------------------------------------
(* RemoteAccessHandler (core/logger.py): the log histories, the diff_logs   *)
(* that are pushed as log events, and the threads and tasks that push them  *)

\* logging.INFO, WARN, ERROR, CRITICAL
LevelBounds == [INFO |-> 20, WARN |-> 30, ERROR |-> 40, CRITICAL |-> 50]
\* record.levelno of the records emitted
Levelnos == {10, 20, 25, 30, 40, 45, 50, 60}
PerLevel == {"debug", "info", "warn", "error", "critical"}

\* the handler before __init__ has run
NoLogger ==
    [maxlen |-> 0,
     lens |-> [h \in PerLevel |-> 0],
     hist |-> [h \in PerLevel \cup {"execution"} |-> <<>>],
     push_events |-> FALSE, events_thread |-> 0, threads |-> <<>>,
     diff_logs |-> <<>>, pushed |-> [id \in 1..MaxRecords |-> 0], emitted |-> 0,
     stop |-> "idle", calls |-> 0, scheduling |-> "", raised |-> "", event |-> TRUE]

\* set_maxlen (lines 108-115): int(value/5) for every level kwargs does not name
set_maxlen(l, value, kwargs) ==
    [l EXCEPT !.maxlen = value,
              !.lens = [h \in PerLevel |-> Get(kwargs, h, value \div 5)],
              !.hist = [h \in PerLevel \cup {"execution"} |-> <<>>]]

\* __init__ (lines 91-97)
NewLogger(maxlen, kwargs, event) ==
    [set_maxlen(NoLogger, maxlen, kwargs) EXCEPT !.event = event]

\* deque(maxlen=n).appendleft(x): the oldest entries fall off the right end
appendleft(dq, x, n) ==
    LET all == <<x>> \o dq IN IF Len(all) <= n THEN all ELSE SubSeq(all, 1, n)

\* emit that appends at the right end of the histories
emit_append(l, record) ==
    LET h == IF record.levelno < LevelBounds.INFO THEN "debug"
             ELSE IF record.levelno < LevelBounds.WARN THEN "info"
             ELSE IF record.levelno < LevelBounds.ERROR THEN "warn"
             ELSE IF record.levelno < LevelBounds.CRITICAL THEN "error"
             ELSE "critical"
    IN  [l EXCEPT !.hist[h] = IF Len(@) < l.lens[h] THEN Append(@, record) ELSE @,
                  !.hist["execution"] = IF Len(@) < l.maxlen THEN Append(@, record) ELSE @,
                  !.diff_logs = IF l.push_events THEN <<record>> \o @ ELSE @,
                  !.emitted = @ + 1]

\* emit (lines 156-177)
emit(l, record) ==
    LET h == IF record.levelno < LevelBounds.INFO THEN "debug"
             ELSE IF record.levelno < LevelBounds.WARN THEN "info"
             ELSE IF record.levelno < LevelBounds.ERROR THEN "warn"
             ELSE IF record.levelno < LevelBounds.CRITICAL THEN "error"
             ELSE "critical"
    IN  [l EXCEPT !.hist[h] = appendleft(@, record, l.lens[h]),
                  !.hist["execution"] = appendleft(@, record, l.maxlen),
                  !.diff_logs = IF l.push_events THEN <<record>> \o @ ELSE @,
                  !.emitted = @ + 1]

\* the values of `scheduling` the docstring names and the ones the code tests
Schedulings == {"threaded", "async", "threading", "asyncio"}

\* a pusher: a thread running _push_diff_logs or a task running _async_push_diff_logs
Pusher(kind, at) == [kind |-> kind, pc |-> at]
Alive(p) == p.pc \notin {"ended", "crashed"}

\* threading.Thread(target=self._push_diff_logs) assigned to _events_thread and
\* started (lines 140-141): the thread is about to execute line 180
start_events_thread(l) ==
    [l EXCEPT !.threads = Append(@, Pusher("thread", "start")),
              !.events_thread = Len(l.threads) + 1]

\* push_events that starts a thread whenever 'threading' is asked for
push_events_unguarded(l, scheduling) ==
    LET called == [l EXCEPT !.calls = @ + 1, !.scheduling = scheduling, !.raised = ""]
    IN  IF scheduling = "asyncio"
        THEN [called EXCEPT !.threads = Append(@, Pusher("task", "test"))]
        ELSE IF scheduling = "threading"
        THEN start_events_thread(called)
        ELSE [called EXCEPT !.raised = "ValueError"]

\* push_events (lines 121-143)
push_events(l, scheduling) ==
    LET called == [l EXCEPT !.calls = @ + 1, !.scheduling = scheduling, !.raised = ""]
    IN  IF scheduling = "asyncio"
        THEN [called EXCEPT !.threads = Append(@, Pusher("task", "test"))]
        ELSE IF scheduling = "threading"
        THEN IF l.events_thread # 0 THEN start_events_thread(called) ELSE called
        ELSE [called EXCEPT !.raised = "ValueError"]

\* one step of _push_diff_logs (lines 179-187) or of _async_push_diff_logs (lines
\* 189-194) from one line that another thread can interleave with to the next;
\* event.push gets the list as it is at that moment, clear() empties it afterwards;
\* `pushed` counts for each record the batches it was pushed in, up to "more than one"
pusher_step(l, i) ==
    LET p == l.threads[i]
        at(to) == [l EXCEPT !.threads[i].pc = to]
    IN  CASE p.pc = "start" -> [at("test") EXCEPT !.push_events = TRUE]
          [] p.pc = "test"  -> IF l.push_events THEN at("sleep") ELSE at("ended")
          [] p.pc = "sleep" -> IF p.kind = "thread" /\ Len(l.diff_logs) = 0
                               THEN at("test") ELSE at("push")
          [] p.pc = "push"  -> IF l.event
                               THEN [at("clear") EXCEPT !.pushed =
                                        [id \in DOMAIN @ |->
                                           IF \E k \in 1..Len(l.diff_logs) : l.diff_logs[k].id = id
                                           THEN IF @[id] = 0 THEN 1 ELSE 2
                                           ELSE @[id]]]
                               ELSE at("crashed")
          [] p.pc = "clear" -> [at("test") EXCEPT !.diff_logs = <<>>]
          [] OTHER -> l

\* stop_events up to the join (lines 150-152), or to its end when there is no thread
stop_events_called(l) ==
    [l EXCEPT !.push_events = FALSE,
              !.stop = IF l.events_thread # 0 THEN "joining" ELSE "returned"]

\* stop_events from the return of join() on (lines 152-154)
stop_events_joined(l) ==
    [l EXCEPT !.events_thread = 0, !.stop = "returned"]

NoTunnels == [open |-> {}, made |-> 0, uuids |-> {}, now |-> 0]
AsideInit ==
    /\ tunnels = NoTunnels /\ inflight = <<>> /\ codec = NoCodec
    /\ connecting = NotConnecting /\ logger = NoLogger

NoEffects ==
    [dispatches |-> <<>>, refreshes |-> 0, refresh_tasks |-> 0, subscriptions |-> 0,
     things_created |-> 0, stops |-> 0, stopped |-> 0, escaped |-> ""]

\* status 0: set_status was never called (tornado then answers with its default)
NoResponse ==
    [status |-> 0, headers |-> NoMap, body |-> <<>>, flushed |-> <<>>, finished |-> 0,
     stream_closed |-> FALSE]

Init ==
    /\ handler \in Handlers
    /\ allowed_clients \in AllowListsOf(handler)
    /\ resource \in ResourcesOf(handler)
    /\ request \in RequestsOf(handler)
    /\ exchange \in ScriptsOf(handler, request.method)
    /\ owner_inst \in OwnersOf(handler, request.method)
    /\ pc = "start"
    /\ authorized = "unknown"
    /\ response = NoResponse
    /\ effects = NoEffects
    /\ consumer = NoConsumer
    /\ assembled = NothingAssembled
    /\ AsideInit

-----------------------------------------------------------------------------
(* Actions *)

\* what belongs to the other specifications of this module
Aside == <<tunnels, inflight, codec, connecting, logger>>

Fixed == UNCHANGED <<handler, allowed_clients, resource, request, exchange, owner_inst,
                     assembled, Aside>>

Become(m) ==
    /\ response' = m.rsp
    /\ effects' = m.eff
    /\ authorized' = m.auth
    /\ pc' = m.pc

\* PropertyHandler.get / post / put / delete
PropertyRequest ==
    /\ pc = "start" /\ handler = "PropertyHandler" /\ request.method # "OPTIONS"
    /\ Become(Property_verb(request.method, Running))
    /\ UNCHANGED consumer /\ Fixed

\* ActionHandler.get / post / put / delete
ActionRequest ==
    /\ pc = "start" /\ handler = "ActionHandler" /\ request.method # "OPTIONS"
    /\ Become(Action_verb(request.method, Running))
    /\ UNCHANGED consumer /\ Fixed

\* RPCHandler.options, EventHandler.options, ThingsHandler.options, older
\* RPCHandler.options
OptionsRequest ==
    /\ pc = "start" /\ request.method = "OPTIONS"
    /\ Become(CASE handler \in CurrentRPC -> RPC_options(Running)
                [] handler = "EventHandler" -> Event_options(Running)
                [] handler = "ThingsHandler" -> Things_options(Running)
                [] handler = "OldRPCHandler" -> Old_options(Running))
    /\ UNCHANGED consumer /\ Fixed

\* the await of async_execute ends: line 183 (current), line 107 (older)
ExchangeReturns ==
    /\ pc = "await_async_execute"
    /\ LET outcome == ExchangeOutcome(Len(effects.dispatches))
       IN  Become(IF handler = "OldRPCHandler"
                  THEN Old_after_execute(Running, outcome)
                  ELSE RPC_after_execute(Running, outcome))
    /\ UNCHANGED consumer /\ Fixed

\* older RPCHandler.get / post / patch / put / delete
OldRequest ==
    /\ pc = "start" /\ handler = "OldRPCHandler" /\ request.method # "OPTIONS"
    /\ Become(Old_verb(request.method, Running))
    /\ UNCHANGED consumer /\ Fixed

\* EventHandler.get up to the first receive: access control, headers, the consumer
EventGet ==
    /\ pc = "start" /\ handler = "EventHandler" /\ request.method = "GET"
    /\ LET a == has_access_control(Running)
       IN  IF ~a.ok
           THEN /\ Become(Return([a.m EXCEPT !.rsp = finish(set_status(@, 401))]))
                /\ UNCHANGED consumer
           ELSE \E created \in BOOLEAN :
                  LET h == [a.m EXCEPT !.rsp = Event_set_headers(@)]
                  IN  IF created
                      THEN /\ Become([h EXCEPT !.rsp = set_status(@, 200),
                                               !.eff.subscriptions = @ + 1,
                                               !.pc = "streaming"])
                           /\ consumer' = [NoConsumer EXCEPT !.cls = EventConsumerClass,
                                                              !.open = TRUE]
                      ELSE /\ Become(Event_leave([h EXCEPT !.rsp =
                                        write(set_status(@, 500), ExceptionBody("Exception"))]))
                           /\ UNCHANGED consumer
    /\ Fixed

\* the HTTP client of an event tunnel goes away: from now on every flush raises
\* StreamClosedError
ClientDisconnects ==
    /\ pc = "streaming" /\ ~response.stream_closed
    /\ response' = [response EXCEPT !.stream_closed = TRUE]
    /\ UNCHANGED <<effects, authorized, pc, consumer>> /\ Fixed

\* one turn of the loop of handle_datastream (lines 421-440), and what follows the loop
\* when the turn breaks it (lines 441-445, then finish() in get).  The first MaxPolls
\* turns are logged; a later turn that stays in the loop is taken without being logged.
EventPoll ==
    /\ pc = "streaming" /\ handler = "EventHandler"
    /\ \E got \in Receives :
         LET turn   == Event_loop_turn(Running, got, response.stream_closed)
             polled == [consumer EXCEPT !.polls = @ + 1, !.received = Append(@, got),
                                        !.ran_on = ReceiveRunsOn(consumer.cls)]
         IN  IF turn.pc = "streaming" /\ consumer.polls >= MaxPolls
             THEN /\ consumer' = [consumer EXCEPT !.beat = ~@]
                  /\ UNCHANGED <<response, effects, authorized, pc>>
             ELSE /\ Become(turn)
                  /\ consumer' = IF turn.pc = "streaming" THEN polled
                                 ELSE ConsumerAfterLoop(polled)
    /\ Fixed

\* older EventHandler.get up to the first receive (lines 133-149).  When the consumer
\* cannot be created, the handler of line 164 formats with data_header, a local that
\* line 149 has not bound yet: UnboundLocalError leaves get() before finish().
OldEventGet ==
    /\ pc = "start" /\ handler = "OldEventHandler"
    /\ \E created \in BOOLEAN :
         LET h == [Running EXCEPT !.rsp = Old_Event_set_headers(@)]
         IN  IF created
             THEN /\ Become([h EXCEPT !.eff.subscriptions = @ + 1, !.pc = "streaming"])
                  /\ consumer' = [NoConsumer EXCEPT !.cls = "EventConsumer", !.open = TRUE]
             ELSE /\ Become(Escape(h, "UnboundLocalError"))
                  /\ UNCHANGED consumer
    /\ Fixed

\* one turn of the loop of the older handle_datastream, and line 163 when it breaks
OldEventPoll ==
    /\ pc = "streaming" /\ handler = "OldEventHandler"
    /\ \E got \in Receives :
         LET turn   == Old_Event_loop_turn(Running, got, response.stream_closed)
             polled == [consumer EXCEPT !.polls = @ + 1, !.received = Append(@, got),
                                        !.ran_on = "event_loop"]
         IN  IF turn.pc = "streaming" /\ consumer.polls >= MaxPolls
             THEN /\ consumer' = [consumer EXCEPT !.beat = ~@]
                  /\ UNCHANGED <<response, effects, authorized, pc>>
             ELSE /\ Become(turn)
                  /\ consumer' = IF turn.pc = "streaming" THEN polled
                                 ELSE Old_ConsumerAfterLoop(polled)
    /\ Fixed

\* ThingsHandler.get / post
ThingsRequest ==
    /\ pc = "start" /\ handler = "ThingsHandler" /\ request.method # "OPTIONS"
    /\ \E created \in BOOLEAN, routed \in BOOLEAN :
         Become(IF request.method = "GET" THEN Things_get(Running)
                ELSE Things_post(Running, created, routed))
    /\ UNCHANGED consumer /\ Fixed

\* StopHandler.post
StopRequest ==
    /\ pc = "start" /\ handler = "StopHandler"
    /\ Become(Stop_post(Running))
    /\ UNCHANGED consumer /\ Fixed

\* line 535: the event loop runs the scheduled callback, whose task runs
\* owner_inst.stop()
StopTaskRuns ==
    /\ effects.stopped < effects.stops
    /\ effects' = [effects EXCEPT !.stopped = @ + 1]
    /\ UNCHANGED <<response, authorized, pc, consumer>> /\ Fixed

Next ==
    \/ PropertyRequest
    \/ ActionRequest
    \/ OptionsRequest
    \/ OldRequest
    \/ ExchangeReturns
    \/ EventGet
    \/ ClientDisconnects
    \/ EventPoll
    \/ OldEventGet
    \/ OldEventPoll
    \/ ThingsRequest
    \/ StopRequest
    \/ StopTaskRuns

Spec == Init /\ [][Next]_vars

\* Requests followed to their end under fairness: every handler, verb, allow-list,
\* resource and exchange script, with a body that is absent or not JSON.
FairInit ==
    /\ handler \in Handlers
    /\ allowed_clients \in AllowListsOf(handler)
    /\ resource \in ResourcesOf(handler)
    /\ request \in {r \in RequestsOf(handler) :
                       /\ r.query = NoMap /\ r.body.shape \in {"empty", "invalid"}
                       /\ r.origin \in {NoOrigin, "https://a.example"}}
    /\ exchange \in ScriptsOf(handler, request.method)
    /\ owner_inst \in {o \in OwnersOf(handler, request.method) : o.schema_validator = "None"}
    /\ pc = "start"
    /\ authorized = "unknown"
    /\ response = NoResponse
    /\ effects = NoEffects
    /\ consumer = NoConsumer
    /\ assembled = NothingAssembled
    /\ AsideInit

\* the event loop runs every coroutine that can run
FairSpec == FairInit /\ [][Next]_vars /\ WF_vars(Next)

-----------------------------------------------------------------------------
(* Several event tunnels on one event: each GET that reaches handle_datastream *)
(* constructs a consumer of its own and names it.                             *)

\* uuid.uuid4(): a random 122-bit value, taken as one no tunnel has drawn before
UUIDs == {"u" \o ToString(i) : i \in 1..(MaxTunnels + 1)}
uuid4 == UUIDs \ tunnels.uuids

\* current_datetime_ms_str(): the wall clock read to the millisecond
current_datetime_ms_str == ToString(tunnels.now)

\* the identity handed to the consumer: lines 409-410 of the current handler,
\* lines 147-148 of the older one
ConsumerIdentity(h, u) ==
    IF h = "EventHandler" THEN resource.name \o "|HTTPEvent|" \o u
    ELSE resource.name \o "|HTTPEvent|" \o current_datetime_ms_str

TunnelsInit ==
    /\ handler \in {"EventHandler", "OldEventHandler"}
    /\ allowed_clients \in AllowListsOf(handler)
    /\ resource \in ResourcesOf(handler)
    /\ request \in {r \in RequestsOf(handler) : r.method = "GET"}
    /\ exchange = <<>>
    /\ owner_inst \in OwnersOf(handler, "GET")
    /\ pc = "start"
    /\ authorized = "unknown"
    /\ response = NoResponse
    /\ effects = NoEffects
    /\ consumer = NoConsumer
    /\ assembled = NothingAssembled
    /\ tunnels = NoTunnels /\ inflight = <<>> /\ codec = NoCodec
    /\ connecting = NotConnecting /\ logger = NoLogger

TunnelsFixed == UNCHANGED <<handler, allowed_clients, resource, request, exchange, owner_inst,
                            pc, authorized, response, effects, consumer, assembled,
                            inflight, codec, connecting, logger>>

\* a GET of one more client reaches handle_datastream, which constructs the consumer
\* of this connection: a new object each time, with the identity of the handler
OpenTunnel ==
    /\ tunnels.made < MaxTunnels
    /\ handler = "EventHandler" => has_access_control(Running).ok
    /\ \E u \in uuid4 :
         tunnels' = [tunnels EXCEPT
             !.made  = @ + 1,
             !.uuids = IF handler = "EventHandler" THEN @ \cup {u} ELSE @,
             !.open  = @ \cup {[conn     |-> tunnels.made + 1,
                                consumer |-> tunnels.made + 1,
                                cls      |-> IF handler = "EventHandler"
                                             THEN EventConsumerClass ELSE "EventConsumer",
                                identity |-> ConsumerIdentity(handler, u)]}]
    /\ TunnelsFixed

\* the connection of a tunnel closes and its consumer goes with it
CloseTunnel ==
    /\ \E t \in tunnels.open : tunnels' = [tunnels EXCEPT !.open = @ \ {t}]
    /\ TunnelsFixed

\* a millisecond passes
Tick ==
    /\ tunnels.now < MaxClock
    /\ tunnels' = [tunnels EXCEPT !.now = @ + 1]
    /\ TunnelsFixed

TunnelsNext == OpenTunnel \/ CloseTunnel \/ Tick

SpecTunnels == TunnelsInit /\ [][TunnelsNext]_vars

-----------------------------------------------------------------------------
(* Several requests on one property or action served at the same time: one  *)
(* handler coroutine each, all in front of the same client pool and router. *)

\* a handler whose request has not arrived yet
NotArrived == [rsp |-> NoResponse, eff |-> NoEffects, auth |-> "unknown", pc |-> "idle"]

ConcurrentInit ==
    /\ handler \in CurrentRPC
    /\ allowed_clients \in AllowListsOf(handler)
    /\ resource \in ResourcesOf(handler)
    /\ request \in {r \in RequestsOf(handler) :
                       /\ r.method # "OPTIONS" /\ r.query = NoMap
                       /\ r.body.shape = "empty" /\ r.origin = NoOrigin}
    /\ exchange \in ScriptsOf(handler, request.method)
    /\ owner_inst = Owner("None", TRUE, "None")
    /\ pc = "start"
    /\ authorized = "unknown"
    /\ response = NoResponse
    /\ effects = NoEffects
    /\ consumer = NoConsumer
    /\ assembled = NothingAssembled
    /\ tunnels = NoTunnels /\ codec = NoCodec /\ connecting = NotConnecting
    /\ logger = NoLogger
    /\ inflight = [i \in 1..MaxRequests |-> NotArrived]

ConcurrentFixed == UNCHANGED <<handler, allowed_clients, resource, request, exchange,
                               owner_inst, pc, authorized, response, effects, consumer,
                               assembled, tunnels, codec, connecting, logger>>

\* the request of one more client arrives and gets a handler
RequestArrives ==
    /\ \E i \in 1..MaxRequests :
         /\ inflight[i].pc = "idle"
         /\ inflight' = [inflight EXCEPT ![i].pc = "start"]
    /\ ConcurrentFixed

\* the coroutine of one handler runs up to its next await: the verb method up to the
\* await of async_execute, or what follows that await (lines 192-212), where each
\* handler that sees ConnectionError awaits update_router_with_thing itself
HandlerRuns ==
    /\ \E i \in 1..MaxRequests :
         /\ inflight[i].pc \in {"start", "await_async_execute"}
         /\ inflight' = [inflight EXCEPT ![i] =
                IF @.pc = "start"
                THEN IF handler = "PropertyHandler"
                     THEN Property_verb(request.method, @)
                     ELSE Action_verb(request.method, @)
                ELSE RPC_after_execute(@, ExchangeOutcome(Len(@.eff.dispatches)))]
    /\ ConcurrentFixed

ConcurrentNext == RequestArrives \/ HandlerRuns

SpecConcurrent == ConcurrentInit /\ [][ConcurrentNext]_vars

\* calls of owner_inst.update_router_with_thing made by the first n handlers
RECURSIVE Rebinds(_)
Rebinds(n) == IF n = 0 THEN 0 ELSE inflight[n].eff.refreshes + Rebinds(n - 1)

-----------------------------------------------------------------------------
(* The serializers on their own: replacements are registered and values are *)
(* dumped and loaded back, in any order.                                    *)

SerializersInit ==
    /\ handler = "BaseHandler"
    /\ allowed_clients = {}
    /\ resource = Resource(FALSE, FALSE, FALSE, {}, "")
    /\ request = Request("PUT", NoOrigin, <<EmptyBody, NoMap>>)
    /\ exchange = <<>>
    /\ owner_inst = Owner("None", TRUE, "None")
    /\ pc = "serializers"
    /\ authorized = "unknown"
    /\ response = NoResponse
    /\ effects = NoEffects
    /\ consumer = NoConsumer
    /\ assembled = NothingAssembled
    /\ tunnels = NoTunnels /\ inflight = <<>> /\ connecting = NotConnecting
    /\ codec = NoCodec /\ logger = NoLogger

SerializersFixed == UNCHANGED <<handler, allowed_clients, resource, request, exchange,
                                owner_inst, pc, authorized, response, effects, consumer,
                                assembled, tunnels, inflight, connecting, logger>>

\* <serializer>.register_type_replacement(object_type, replacement_function)
CallRegister ==
    /\ \E serializer \in Registering, object_type \in ObjectTypes, fn \in Replacers :
         codec' = register_type_replacement(codec, serializer, object_type, fn)
    /\ SerializersFixed

\* <serializer>.loads(<serializer>.dumps(obj))
CallDumpsLoads ==
    /\ \E serializer \in Serializers, obj \in Objects :
         LET dumped == dumps(codec, serializer, obj)
         IN  codec' = [codec EXCEPT !.call =
                 [NoCall EXCEPT !.op = "dumps", !.serializer = serializer, !.obj = obj,
                                !.exc = dumped.exc,
                                !.loaded = IF dumped.exc # "" THEN PyInt(0)
                                           ELSE Serializer_loads(dumped.ret)]]
    /\ SerializersFixed

SerializersNext == CallRegister \/ CallDumpsLoads

SpecSerializers == SerializersInit /\ [][SerializersNext]_vars

-----------------------------------------------------------------------------
(* connect_to_remote_object called with a list of clients *)

ConnectInit ==
    /\ handler = "RemoteObjectsHandler"
    /\ allowed_clients = {}
    /\ resource = Resource(FALSE, FALSE, FALSE, {}, "")
    /\ request = Request("POST", NoOrigin, <<EmptyBody, NoMap>>)
    /\ exchange = <<>>
    /\ owner_inst = Owner("None", TRUE, "None")
    /\ pc = "connecting"
    /\ authorized = "unknown"
    /\ response = NoResponse
    /\ effects = NoEffects
    /\ consumer = NoConsumer
    /\ assembled = NothingAssembled
    /\ tunnels = NoTunnels /\ inflight = <<>> /\ codec = NoCodec /\ logger = NoLogger
    /\ connecting = NotConnecting

ConnectFixed == UNCHANGED <<handler, allowed_clients, resource, request, exchange,
                            owner_inst, pc, authorized, response, effects, consumer,
                            assembled, tunnels, inflight, codec, logger>>

\* RemoteObjectsHandler.connect_to_remote_object(clients, request_handler) is called
ConnectCalled ==
    /\ connecting.pc = "idle"
    /\ \E n \in 0..MaxClients, application \in BOOLEAN :
         connecting' = Connecting([k \in 1..n |-> k], application)
    /\ ConnectFixed

\* the coroutine runs from one await to the next
ConnectStep ==
    /\ connecting.pc \in {"handshake_complete", "async_execute", "add_rules"}
    /\ \E ok \in BOOLEAN, reply \in Replies :
         connecting' = connect_to_remote_object(connecting, ok, reply)
    /\ ConnectFixed

ConnectNext == ConnectCalled \/ ConnectStep

SpecConnect == ConnectInit /\ [][ConnectNext]_vars

-----------------------------------------------------------------------------
(* The log histories: a handler is constructed and records are emitted *)

\* maxlen and the len_* keyword arguments the handler is constructed with
Maxlens == {1, 5, 10}
LenKwargs == {NoMap, [h \in {"debug"} |-> 1], [h \in {"info", "error"} |-> 2]}

LoggerIdle ==
    /\ handler = "RemoteAccessHandler"
    /\ allowed_clients = {}
    /\ resource = Resource(FALSE, FALSE, FALSE, {}, "")
    /\ request = Request("POST", NoOrigin, <<EmptyBody, NoMap>>)
    /\ exchange = <<>>
    /\ owner_inst = Owner("None", TRUE, "None")
    /\ pc = "logging"
    /\ authorized = "unknown"
    /\ response = NoResponse
    /\ effects = NoEffects
    /\ consumer = NoConsumer
    /\ assembled = NothingAssembled
    /\ tunnels = NoTunnels /\ inflight = <<>> /\ codec = NoCodec
    /\ connecting = NotConnecting

HistoryInit ==
    /\ LoggerIdle
    /\ logger \in {NewLogger(m, k, TRUE) : m \in Maxlens, k \in LenKwargs}

LoggerFixed == UNCHANGED <<handler, allowed_clients, resource, request, exchange,
                           owner_inst, pc, authorized, response, effects, consumer,
                           assembled, tunnels, inflight, codec, connecting>>

\* a logging call reaches the handler: emit(record)
Emit ==
    /\ logger.emitted < MaxRecords
    /\ \E levelno \in Levelnos :
         logger' = emit(logger, [id |-> logger.emitted + 1, levelno |-> levelno])
    /\ LoggerFixed

HistoryNext == Emit

SpecLogHistory == HistoryInit /\ [][HistoryNext]_vars

-----------------------------------------------------------------------------
(* Pushing log events: pushers are started, records are emitted from logging *)
(* threads, and stop_events is called once                                  *)

\* maxlen 5; `event` is looked up on the handler by lines 184 and 192, and the class
\* (whose bases other than logging.Handler are not part of these sources) may or may
\* not define it
PushInit ==
    /\ LoggerIdle
    /\ logger \in {NewLogger(5, NoMap, defined) : defined \in BOOLEAN}

\* a client calls push_events
CallPushEvents ==
    /\ logger.stop = "idle" /\ logger.calls < MaxCalls
    /\ \E scheduling \in Schedulings : logger' = push_events(logger, scheduling)
    /\ LoggerFixed

\* the owner of the handler runs lines 140-141 itself: no call of push_events does
\* when no thread exists yet (line 139)
OwnerStartsThread ==
    /\ logger.stop = "idle" /\ logger.threads = <<>>
    /\ logger' = start_events_thread(logger)
    /\ LoggerFixed

\* a pusher advances by one step
PusherStep(i) ==
    /\ i \in 1..Len(logger.threads) /\ Alive(logger.threads[i])
    /\ logger' = pusher_step(logger, i)
    /\ LoggerFixed

\* a logging thread emits a record while pushers may be running
EmitAside ==
    /\ logger.emitted < MaxRecords
    /\ logger' = emit(logger, [id |-> logger.emitted + 1, levelno |-> LevelBounds.INFO])
    /\ LoggerFixed

\* a client calls stop_events
CallStopEvents ==
    /\ logger.stop = "idle"
    /\ logger' = stop_events_called(logger)
    /\ LoggerFixed

\* join() returns once the thread has ended
StopJoins ==
    /\ logger.stop = "joining" /\ ~Alive(logger.threads[logger.events_thread])
    /\ logger' = stop_events_joined(logger)
    /\ LoggerFixed

PushNext ==
    \/ CallPushEvents
    \/ OwnerStartsThread
    \/ \E i \in 1..(MaxCalls + 1) : PusherStep(i)
    \/ EmitAside
    \/ CallStopEvents
    \/ StopJoins

\* threads and tasks are scheduled again and again, and join() returns when it can
SpecLogPush ==
    /\ PushInit /\ [][PushNext]_vars
    /\ \A i \in 1..(MaxCalls + 1) : WF_vars(PusherStep(i))
    /\ WF_vars(StopJoins)

-----------------------------------------------------------------------------
(* Argument assembly on its own: get_execution_parameters and the older     *)
(* prepare_arguments applied to every body and query string of the bounds.  *)

ArgsInit ==
    /\ handler = "BaseHandler"
    /\ allowed_clients = {}
    /\ resource \in {Resource(FALSE, FALSE, raa, {}, "") : raa \in BOOLEAN}
    /\ request \in {Request("PUT", NoOrigin, <<b, q>>) : b \in ArgBodies, q \in ArgQueries}
    /\ exchange = <<>>
    /\ owner_inst = Owner("None", TRUE, "None")
    /\ pc = "arguments"
    /\ authorized = "unknown"
    /\ response = NoResponse
    /\ effects = NoEffects
    /\ consumer = NoConsumer
    /\ assembled = NothingAssembled
    /\ AsideInit

ArgsFixed == UNCHANGED <<handler, allowed_clients, resource, request, exchange, owner_inst,
                         pc, authorized, response, effects, consumer, Aside>>

\* self.get_execution_parameters()
CallGetExecutionParameters ==
    /\ pc = "arguments" /\ assembled.current = NotCalled
    /\ assembled' = [assembled EXCEPT !.current = get_execution_parameters(request, resource)]
    /\ ArgsFixed

\* self.prepare_arguments()
CallPrepareArguments ==
    /\ pc = "arguments" /\ assembled.older = NotCalled
    /\ assembled' = [assembled EXCEPT !.older = prepare_arguments(request)]
    /\ ArgsFixed

ArgsNext == CallGetExecutionParameters \/ CallPrepareArguments

SpecArgs == ArgsInit /\ [][ArgsNext]_vars

-----------------------------------------------------------------------------
(* Properties *)

Attempts == Len(effects.dispatches)
ACAOHeader == IF ACAO \in DOMAIN response.headers THEN response.headers[ACAO] ELSE "<absent>"

\* a property / action request with one of the four verbs, to the current handlers
RPCVerbRequest == handler \in CurrentRPC /\ request.method # "OPTIONS"

\* every request whose handler evaluates BaseHandler.has_access_control
ChecksAccess ==
    \/ handler \in CurrentRPC \cup {"EventHandler", "StopHandler"}
    \/ handler = "ThingsHandler" /\ request.method # "GET"

\* the origin test of the source: verbatim, or with "/" appended to the origin
OriginAccepted ==
    \/ allowed_clients = {}
    \/ /\ request.origin # NoOrigin
       /\ request.origin \in allowed_clients \/ (request.origin \o "/") \in allowed_clients

\* the verb table of the specification, section 4.3
VerbTable(method) ==
    CASE method = "GET" -> "readProperty"
      [] method = "POST" -> "writeProperty"
      [] method = "PUT" -> "writeProperty"
      [] method = "DELETE" -> "deleteProperty"

AllowedByFlags ==
    \/ request.method = "GET" /\ ~resource.writeOnly
    \/ request.method \in {"POST", "PUT"} /\ ~resource.readOnly
    \/ request.method = "DELETE"

\* C1: a ConnectionError on the first dispatch attempt causes exactly one routing
\* refresh and exactly one re-dispatch of the same operation; a second one is
\* surfaced as an error; a request makes at most two dispatch attempts.
C1_RetryExactlyOnce ==
    (RPCVerbRequest /\ pc = "done" /\ authorized = "yes" /\ response.status # 405)
      => /\ Attempts <= 2
         /\ exchange[1] = "ConnectionError" =>
               /\ effects.refreshes = 1
               /\ Attempts = 2
               /\ effects.dispatches[1].operation = effects.dispatches[2].operation
               /\ exchange[2] = "ConnectionError" => response.status >= 500

C3_DisallowedVerbIs405 ==
    (handler = "PropertyHandler" /\ pc # "start" /\ authorized = "yes"
       /\ \/ request.method \in {"POST", "PUT"} /\ resource.readOnly
          \/ request.method = "GET" /\ resource.writeOnly)
      => (pc = "done" /\ response.status = 405 /\ response.finished = 1 /\ Attempts = 0)

C3_Witness ==
    /\ handler = "PropertyHandler" /\ request.method = "PUT" /\ resource.readOnly
    /\ authorized = "yes" /\ response.status = 405 /\ Attempts = 0

\* C4: on a property, every verb the flags allow is dispatched with the operation of
\* the verb table and is not answered with 405.
C4_AllowedVerbDispatched ==
    (handler = "PropertyHandler" /\ request.method # "OPTIONS" /\ pc # "start"
       /\ authorized = "yes" /\ AllowedByFlags)
      => /\ response.status # 405
         /\ Attempts >= 1
         /\ effects.dispatches[1].operation = VerbTable(request.method)

\* C5: on an action, each of GET, POST, PUT and DELETE dispatches invokeAction and none
\* is answered with 405.
C5_ActionAlwaysInvokes ==
    (handler = "ActionHandler" /\ request.method # "OPTIONS" /\ pc # "start"
       /\ authorized = "yes")
      => /\ response.status # 405
         /\ Attempts >= 1
         /\ effects.dispatches[1].operation = "invokeAction"

\* C6: with an empty allow-list every request is authorized, whatever its Origin, and
\* Access-Control-Allow-Origin is the wildcard.
C6_EmptyAllowListIsWildcard ==
    (ChecksAccess /\ pc # "start" /\ allowed_clients = {})
      => (authorized = "yes" /\ ACAOHeader = "*" /\ response.status # 401)

C6_Witness ==
    /\ ChecksAccess /\ pc # "start" /\ allowed_clients = {} /\ request.origin = NoOrigin
    /\ authorized = "yes" /\ ACAOHeader = "*"

\* C7 as stated: with a non-empty allow-list, an Origin that is in the list or differs
\* from an entry only by a trailing slash (either way round) is authorized and echoed.
C7_TrailingSlashEitherWay ==
    (ChecksAccess /\ pc # "start" /\ allowed_clients # {} /\ request.origin # NoOrigin
       /\ \/ request.origin \in allowed_clients
          \/ \E entry \in allowed_clients :
                entry \o "/" = request.origin \/ request.origin \o "/" = entry)
      => (authorized = "yes" /\ ACAOHeader = request.origin)

\* C7 as amended: with a non-empty allow-list, an Origin that is in the list, or that
\* is in the list once "/" is appended to it, is authorized and echoed.
C7_OriginOrOriginSlashListed ==
    (ChecksAccess /\ pc # "start" /\ allowed_clients # {} /\ request.origin # NoOrigin
       /\ \/ request.origin \in allowed_clients
          \/ \E entry \in allowed_clients : request.origin \o "/" = entry)
      => (authorized = "yes" /\ ACAOHeader = request.origin /\ response.status # 401)

C7_Witness ==
    /\ ChecksAccess /\ pc # "start"
    /\ allowed_clients = {"https://a.example/"} /\ request.origin = "https://a.example"
    /\ authorized = "yes" /\ ACAOHeader = "https://a.example"

\* C8: a request whose origin is not accepted is answered with 401, causes no exchange,
\* no subscription, no Thing creation, no router refresh and no stop, and carries no
\* Access-Control-Allow-Origin header, in every handler that checks the origin.
C8_UnauthorizedIs401 ==
    (ChecksAccess /\ pc # "start" /\ ~OriginAccepted)
      => /\ pc = "done" /\ authorized = "no" /\ response.status = 401
         /\ Attempts = 0 /\ effects.subscriptions = 0 /\ effects.things_created = 0
         /\ effects.refreshes = 0 /\ effects.refresh_tasks = 0 /\ effects.stops = 0
         /\ consumer = NoConsumer
         /\ ACAOHeader = "<absent>"

C8_Witness ==
    /\ handler = "StopHandler" /\ pc = "done" /\ ~OriginAccepted
    /\ response.status = 401 /\ effects.stops = 0

\* what the claim C9 says the merged mapping holds under a business key
MergedAsClaimed(out) ==
    \A key \in BusinessKeys :
        IF key \in DOMAIN request.query
        THEN /\ key \in DOMAIN out
             /\ IF Len(request.query[key]) = 1
                THEN out[key] = Decode(request.query[key][1])
                ELSE /\ out[key].k = "list"
                     /\ Len(out[key].items) = Len(request.query[key])
                     /\ \A i \in 1..Len(request.query[key]) :
                           out[key].items[i] = Decode(request.query[key][i])
        ELSE IF key \in DOMAIN request.body.members
             THEN key \in DOMAIN out /\ out[key] = Decode(request.body.members[key])
             ELSE key \notin DOMAIN out

\* C9: body and query are merged into one mapping in which the query wins over the
\* body, one value stays a value and several become the list of them, in
\* get_execution_parameters and in the older prepare_arguments alike.
C9_QueryOverridesBody ==
    /\ (assembled.current.exc = "" /\ assembled.current.ret[1].k = "dict")
          => MergedAsClaimed(assembled.current.ret[1].map)
    /\ assembled.older.exc = "" => MergedAsClaimed(assembled.older.ret)

\* the values the request gives the fetch-execution-logs flag
FlagGiven ==
    {Decode(request.body.members[key]) :
        key \in {"fetch_execution_logs"} \cap DOMAIN request.body.members}
    \cup {QueryArguments(request.query)[key] :
        key \in {"fetch_execution_logs"} \cap DOMAIN request.query}

\* C10: the reserved keys, from the body or from the query, are in no payload that is
\* forwarded and in no argument map get_execution_parameters hands back; the
\* fetch-execution-logs flag travels in the server execution context, false if absent.
C10_ReservedKeysNotForwarded ==
    /\ \A i \in 1..Attempts :
          LET e == effects.dispatches[i]
          IN  /\ (DOMAIN e.payload.map) \cap ReservedKeys = {}
              /\ DOMAIN e.server_execution_context = {"fetch_execution_logs"}
              /\ IF FlagGiven = {}
                 THEN e.server_execution_context["fetch_execution_logs"] = JBool(FALSE)
                 ELSE e.server_execution_context["fetch_execution_logs"] \in FlagGiven
    /\ (RPCVerbRequest /\ pc = "done" /\ authorized = "yes" /\ response.status # 405)
          => LET r == get_execution_parameters(request, resource)
             IN  r.exc = "" => (DOMAIN r.ret[1].map) \cap ReservedKeys = {}

C10_Witness ==
    /\ Attempts = 1
    /\ "timeout" \in (DOMAIN request.body.members) \cup (DOMAIN request.query)
    /\ "fetch_execution_logs" \in (DOMAIN request.body.members) \cup (DOMAIN request.query)
    /\ effects.dispatches[1].server_execution_context["fetch_execution_logs"] = JBool(TRUE)
    /\ "a" \in DOMAIN effects.dispatches[1].payload.map

\* an authorized property / action request that passed the verb gate and has returned
RPCAnswered == RPCVerbRequest /\ pc = "done" /\ authorized = "yes" /\ response.status # 405

\* C11: every dispatched exchange carries the timeout of its request: a non-negative
\* timeout of the request arguments is the timeout of the exchange, a negative or
\* missing one is absent, and no exchange is invoked with a negative timeout.
C11_DispatchCarriesTimeout ==
    /\ \A i \in 1..Attempts :
          LET t == effects.dispatches[i].timeout
          IN  t = PyNone \/ ~IsNumber(t) \/ t.n >= 0
    /\ RPCAnswered =>
          LET r == get_execution_parameters(request, resource)
          IN  (r.exc = "" /\ r.ret[1].k = "dict" /\ r.ret[3] # PyNone)
                 => /\ Attempts >= 1
                    /\ \A i \in 1..Attempts : effects.dispatches[i].timeout = r.ret[3]

\* an authorized property / action request with a verb the resource allows has returned
AllowedRPCDone ==
    /\ RPCVerbRequest /\ pc = "done" /\ authorized = "yes"
    /\ handler = "PropertyHandler" => AllowedByFlags

\* the arguments of the request assemble without an error
ArgumentsAssemble == get_execution_parameters(request, resource).exc = ""

\* C12: when the exchange raises ConnectionAborted the handler answers 503, schedules
\* the routing refresh as a task of its own, finishes without awaiting it and does not
\* dispatch again.
C12_AbortedIs503 ==
    (AllowedRPCDone /\ ArgumentsAssemble /\ exchange[1] = "ConnectionAbortedError")
      => /\ response.status = 503 /\ response.finished = 1
         /\ effects.refresh_tasks = 1 /\ effects.refreshes = 0
         /\ Attempts = 1

\* a response body that is one serialized exception description
IsExceptionBody(body) ==
    Len(body) = 1 /\ \E exc \in {"ValueError", "DecodeError", "TypeError", "AttributeError",
                                 "ValidationError", "Exception", "ConnectionError",
                                 "ConnectionAbortedError"} : body[1] = ExceptionBody(exc)

\* the request failed while it was prepared, or its last exchange raised an error that
\* is neither ConnectionAborted nor ConnectionError
FailedOtherwise == Attempts = 0 \/ ExchangeOutcome(Attempts) = "Exception"

\* C13: a property / action request that fails with an error other than
\* ConnectionAborted and ConnectionError is answered 500 with the serialized exception
\* as its body, by the current RPCHandler and by the older one.
C13_OtherErrorIs500 ==
    /\ (RPCAnswered /\ FailedOtherwise)
          => (response.status = 500 /\ IsExceptionBody(response.body))
    /\ (handler = "OldRPCHandler" /\ pc = "done" /\ request.method \in {"PUT", "DELETE"}
          /\ request.method \in resource.instructions /\ FailedOtherwise)
          => (response.status = 500 /\ IsExceptionBody(response.body))

\* C14: an authorized, allowed request whose exchange returns a reply is dispatched
\* exactly once and answered 200 with exactly the reply bytes as its body.
C14_ReplyIs200Verbatim ==
    (AllowedRPCDone /\ ArgumentsAssemble /\ exchange[1] = "reply")
      => /\ Attempts = 1
         /\ response.status = 200
         /\ response.body = <<"<reply bytes>">>

\* client-side validation applies: a validator is configured and validation is enabled
ValidationApplies ==
    owner_inst.schema_validator # "None" /\ owner_inst.validate_schema_on_client

\* C16: with a validator configured and validation enabled, a payload that fails
\* validation is never dispatched and the request is answered with an error; without a
\* validator, or with validation disabled, the payload is dispatched unvalidated.
C16_ValidatedBeforeDispatch ==
    (AllowedRPCDone /\ ArgumentsAssemble)
      => IF ValidationApplies /\ owner_inst.schema_validator = "rejects"
         THEN Attempts = 0 /\ response.status >= 400
         ELSE ~ValidationApplies => Attempts >= 1

\* the value of a response header, "<absent>" if it was not set
Header(name) == IF name \in DOMAIN response.headers THEN response.headers[name] ELSE "<absent>"

\* the methods the handler's resource supports, as OPTIONS lists them
SupportedMethods ==
    CASE handler \in CurrentRPC     -> resource.supported_methods
      [] handler = "EventHandler"   -> "GET"
      [] handler = "ThingsHandler"  -> "GET, POST"
      [] handler = "OldRPCHandler"  ->
            JoinMethods(<<"GET", "POST", "PATCH", "PUT", "DELETE">>, resource.instructions)

Tunnel == handler = "EventHandler" /\ consumer # NoConsumer

IsMessage(got) == got \in Messages
IsDataFrame(chunk) == \E msg \in Messages : chunk = DataFrame(msg)

\* the messages the consumer delivered so far, in order, framed
DeliveredFrames ==
    LET delivered == SelectSeq(consumer.received, IsMessage)
    IN  [i \in 1..Len(delivered) |-> DataFrame(delivered[i])]

\* C17: the data frames written to the stream of an event tunnel are exactly the
\* messages the consumer delivered, in their order, each once; for m1, a silent poll
\* interval, m2 the stream shows m1, a flush that carries nothing new, then m2.
C17_FramesAreDeliveredMessages ==
    Tunnel =>
      /\ SelectSeq(response.body, IsDataFrame) = DeliveredFrames
      /\ consumer.received = <<"m1", "nothing", "m2">> =>
            /\ response.body = <<DataFrame("m1"), DataFrame("m2")>>
            /\ [i \in 1..Len(response.flushed) |-> response.flushed[i].at] = <<1, 1, 2>>

C17_Witness ==
    /\ Tunnel /\ pc = "streaming"
    /\ consumer.received = <<"m1", "nothing", "m2">>
    /\ response.body = <<DataFrame("m1"), DataFrame("m2")>>

\* the outcome of the receive of the turn just taken, and the flush of that turn
LastReceived == consumer.received[Len(consumer.received)]
LastFlush == response.flushed[Len(response.flushed)]

\* a step that is one turn of the loop of the current EventHandler
TunnelTurn ==
    handler = "EventHandler" /\ pc = "streaming" /\ consumer'.received # consumer.received

\* C18: a receive that returns no message within the poll bound is no error: the turn
\* flushes without writing a frame and the loop polls on; when a flush of a turn fails
\* on a closed client stream the loop ends and nothing is written after that flush.
C18_HeartbeatFlush ==
    [][TunnelTurn =>
         /\ LastReceived' = "nothing" =>
               /\ response'.body = response.body
               /\ Len(response'.flushed) = Len(response.flushed) + 1
               /\ LastFlush'.ok => pc' = "streaming"
         /\ (LastReceived' # "error" /\ ~LastFlush'.ok) =>
               /\ pc' = "done"
               /\ LastFlush'.at = Len(response'.body)
         /\ pc' = "done" => ~LastFlush'.ok]_vars

C18_Witness ==
    /\ Tunnel /\ pc = "done"
    /\ consumer.received = <<"nothing", "m1", "nothing">>
    /\ response.body = <<DataFrame("m1")>>
    /\ Len(response.flushed) = 3 /\ ~LastFlush.ok

\* a step that is one turn of the loop of the current or of the older EventHandler
AnyTunnelTurn ==
    /\ handler \in {"EventHandler", "OldEventHandler"} /\ pc = "streaming"
    /\ consumer'.received # consumer.received

\* C19: an error in the middle of an event stream that is not a closed-stream signal
\* puts exactly one exception-shaped frame on the stream and the loop goes on; only a
\* closed-stream signal ends the loop.
C19_ErrorFrameAndContinue ==
    [][AnyTunnelTurn =>
         /\ LastReceived' = "error" =>
               /\ response'.body =
                     Append(response.body, DataFrame(ExceptionBody("Exception")))
               /\ pc' = "streaming"
         /\ pc' # "streaming" =>
               /\ LastReceived' # "error"
               /\ Len(response'.flushed) = Len(response.flushed) + 1
               /\ ~LastFlush'.ok]_vars

C19_Witness ==
    /\ handler \in {"EventHandler", "OldEventHandler"} /\ pc = "streaming"
    /\ consumer.received = <<"m1", "error", "m2">>
    /\ response.body = <<DataFrame("m1"), DataFrame(ExceptionBody("Exception")), DataFrame("m2")>>

\* C20: whenever the loop of an event tunnel has been left, the consumer created for
\* the tunnel has been closed before the request finishes, in every configuration of
\* the server.
C20_ConsumerClosedOnExit ==
    (handler \in {"EventHandler", "OldEventHandler"} /\ consumer # NoConsumer
        /\ pc # "streaming")
      => ~consumer.open

\* C21: once the HTTP client of an event tunnel has disconnected, the loop of the tunnel
\* eventually ends and the request finishes, whatever the consumer's receive does.
C21_DisconnectEndsTunnel ==
    (handler \in {"EventHandler", "OldEventHandler"} /\ pc = "streaming"
        /\ response.stream_closed)
      ~> (pc = "done" /\ response.finished = 1)

\* a GET on an event handler that got past access control without a subscription
TunnelOpenFailed ==
    /\ handler \in {"EventHandler", "OldEventHandler"} /\ request.method = "GET"
    /\ pc # "start" /\ authorized # "no" /\ effects.subscriptions = 0

\* C22: when the event subscription cannot be created as a tunnel is opened, the
\* handler answers 500 with exactly one serialized exception description, never enters
\* the streaming loop and ends the connection.
C22_OpenFailureIs500 ==
    TunnelOpenFailed =>
        /\ pc = "done" /\ response.finished = 1
        /\ response.status = 500
        /\ response.body = <<ExceptionBody("Exception")>>
        /\ consumer = NoConsumer

\* C26: a POST to the stop endpoint from an accepted origin schedules the stop as a
\* task and is answered 204 before that task has run; from any other origin it is
\* answered 401 and no stop is ever scheduled.
C26_StopOnlyWhenAuthorized ==
    /\ [](handler = "StopHandler" /\ pc = "done" =>
            /\ response.finished = 1
            /\ authorized = "yes" => response.status = 204 /\ effects.stops = 1
            /\ authorized = "no"  => /\ response.status = 401
                                     /\ effects.stops = 0 /\ effects.stopped = 0)
    /\ [][handler = "StopHandler" /\ pc = "start" /\ pc' = "done" =>
            effects'.stopped = 0 /\ (authorized' = "yes" <=> effects'.stops = 1)]_vars

C26_Witness ==
    /\ handler = "StopHandler" /\ pc = "done" /\ authorized = "yes"
    /\ response.status = 204 /\ response.finished = 1
    /\ effects.stops = 1 /\ effects.stopped = 0

\* C27: a POST to the things collection from an accepted origin creates the Thing
\* connection and then updates the router; it is answered 204 when both succeed and
\* 500 when either fails, and the router is not updated when the creation failed.
C27_ThingsPostAnswered ==
    (handler = "ThingsHandler" /\ request.method = "POST" /\ pc # "start"
        /\ authorized = "yes") =>
        /\ pc = "done" /\ response.finished = 1
        /\ response.status = IF effects.refreshes = 1 THEN 204 ELSE 500
        /\ effects.things_created = 0 => effects.refreshes = 0

\* the consumer of a current tunnel is the blocking one
BlockingConsumer == consumer.cls = "EventConsumer"

\* the blocking receive runs on the executor, the other one on the event loop
ReceiveOffLoaded ==
    consumer.polls > 0 =>
        consumer.ran_on = IF BlockingConsumer THEN "executor" ELSE "event_loop"

C23_TunnelsHaveOwnConsumers ==
    \A t1 \in tunnels.open, t2 \in tunnels.open :
        t1.conn # t2.conn =>
            t1.consumer # t2.consumer /\ t1.identity # t2.identity

\* every handler of the concurrent requests has answered, and each was let through to
\* the exchange, whose first attempt raises ConnectionError
AllSawConnectionFailure ==
    /\ inflight # <<>> /\ exchange # <<>> /\ exchange[1] = "ConnectionError"
    /\ \A i \in 1..MaxRequests :
         /\ inflight[i].pc = "done" /\ inflight[i].auth = "yes"
         /\ inflight[i].rsp.status # 405

\* C25: when the concurrent requests on one thing all meet a connection failure,
\* exactly one rebind (routing refresh) of that thing runs, not one per request.
C25_SingleFlightRebind ==
    AllSawConnectionFailure => Rebinds(MaxRequests) = 1

\* the documented canonical representation of a value of a fallback type
Canonical(obj) ==
    CASE obj.json # "" -> PyStr(obj.json)
      [] obj.kind = "Enum" -> PyStr(obj.name)
      [] obj.kind = "set" -> PyList(obj.items)
      [] OTHER -> PyStr(obj.text)

JSONRoundTrip ==
    /\ codec.call.op = "dumps" /\ codec.call.serializer = "JSONSerializer"
    /\ codec.call.obj.kind \in {"Enum", "UUID", "datetime", "date", "Decimal", "set"}

\* C28: for the JSON serializer and every value of a fallback type, loads(dumps(value))
\* is the canonical representation: the name of an enum member, the string form of a
\* UUID and of a decimal, the ISO string of a datetime, the list of a set's elements;
\* a value with a json() method goes through that method first.
C28_JSONRoundTripCanonical ==
    JSONRoundTrip =>
        codec.call.exc = "" /\ codec.call.loaded = Canonical(codec.call.obj)

\* the converter registered for the class of the dumped value, through whichever
\* serializer it was registered
RegisteredFor(cls) ==
    IF cls \in DOMAIN codec.replacements THEN codec.replacements[cls]
    ELSE codec.serpent_classes[cls]

\* a value no implementation encodes by itself was dumped, and its class has a
\* converter registered through one implementation only
DumpedRegistered ==
    /\ codec.call.op = "dumps"
    /\ codec.call.obj.kind = "object" /\ codec.call.obj.json = ""
    /\ (codec.call.obj.cls \in DOMAIN codec.replacements)
          # (codec.call.obj.cls \in DOMAIN codec.serpent_classes)

\* C29: the implementations share one registry of fallback converters: a converter
\* registered for a class through one of them is used by every one of them when it
\* dumps a value of that class it cannot encode by itself.
C29_OneSharedRegistry ==
    DumpedRegistered =>
        /\ codec.call.exc = ""
        /\ codec.call.loaded = Apply(RegisteredFor(codec.call.obj.cls), codec.call.obj)

\* the event <<what, client>> stands in the log before position k
LoggedBefore(what, client, k) ==
    \E j \in 1..(k - 1) : connecting.log[j] = <<what, client>>

\* C30: connect_to_remote_object never sends an exchange on a client whose handshake
\* has not completed, and the rules are added to the router only after the resources
\* of every client were read.
C30_HandshakeBeforeExchange ==
    /\ \A k \in 1..Len(connecting.log) :
         connecting.log[k][1] = "async_execute" =>
             LoggedBefore("handshake_complete", connecting.log[k][2], k)
    /\ connecting.rules # <<>> =>
         \A i \in 1..Len(connecting.clients) :
             LoggedBefore("resources_read", connecting.clients[i], Len(connecting.log) + 1)

C30_Witness ==
    /\ Len(connecting.clients) = MaxClients /\ connecting.pc = "done"
    /\ Len(connecting.rules) = 1 /\ connecting.rules[1] # {}
    /\ Len(connecting.log) = 3 * MaxClients

\* the history the levels of logging assign a record of this levelno to
HistoryFor(levelno) ==
    CASE levelno < 20 -> "debug"
      [] levelno >= 20 /\ levelno < 30 -> "info"
      [] levelno >= 30 /\ levelno < 40 -> "warn"
      [] levelno >= 40 /\ levelno < 50 -> "error"
      [] OTHER -> "critical"

\* the n newest entries of a history whose newest entry is the first
Newest(history, n) ==
    IF Len(history) <= n THEN history ELSE SubSeq(history, 1, n)

\* the configured length of a per-level history: len_<level> or int(maxlen/5)
ConfiguredLength(h) == logger.lens[h]

HistoriesBounded ==
    /\ \A h \in PerLevel : Len(logger.hist[h]) <= ConfiguredLength(h)
    /\ Len(logger.hist["execution"]) <= logger.maxlen

\* one emit call: the record goes to the head of the history of its level and of
\* the execution history, the oldest entries beyond the lengths fall off, and the
\* other histories keep their entries
EmitFilesRecord ==
    logger'.emitted = logger.emitted + 1 =>
        \E levelno \in Levelnos :
            LET record == [id |-> logger'.emitted, levelno |-> levelno]
                h == HistoryFor(levelno)
            IN  /\ logger'.hist[h] =
                       Newest(<<record>> \o logger.hist[h], ConfiguredLength(h))
                /\ \A g \in PerLevel \ {h} : logger'.hist[g] = logger.hist[g]
                /\ logger'.hist["execution"] =
                       Newest(<<record>> \o logger.hist["execution"], logger.maxlen)
                /\ logger'.lens = logger.lens /\ logger'.maxlen = logger.maxlen

\* C34: after any sequence of emit calls each record was added to exactly one of the
\* five per-level histories (debug below INFO, info in [INFO, WARN), warn in
\* [WARN, ERROR), error in [ERROR, CRITICAL), critical from CRITICAL up) and to the
\* execution history, newest entry first; no per-level history holds more than its
\* configured length and the execution history never more than maxlen, the oldest
\* entries being discarded.
C34_HistoriesPerLevelNewestFirst ==
    [](HistoriesBounded) /\ [][EmitFilesRecord]_vars

\* three records, the two of level info first: with maxlen 5 the info history keeps
\* the newer of the two only, the execution history all three
C34_Witness ==
    /\ logger.maxlen = 5 /\ logger.lens["info"] = 1 /\ logger.emitted = 3
    /\ logger.hist["info"] = <<[id |-> 2, levelno |-> 25]>>
    /\ logger.hist["critical"] = <<[id |-> 3, levelno |-> 60]>>
    /\ Len(logger.hist["execution"]) = 3
    /\ logger.hist["execution"][3] = [id |-> 1, levelno |-> 20]

\* the pusher threads that have been started and have not ended
ThreadsRunning(l) ==
    {i \in 1..Len(l.threads) : l.threads[i].kind = "thread" /\ Alive(l.threads[i])}

\* the pusher tasks that have left their loop
TasksEnded(l) ==
    {i \in 1..Len(l.threads) : l.threads[i].kind = "task" /\ l.threads[i].pc = "ended"}

\* a call of push_events with a documented value of `scheduling` raises nothing;
\* 'threaded' starts a thread if none is running and none otherwise, 'async'
\* schedules one task
PushEventsStarts ==
    (logger'.calls = logger.calls + 1 /\ logger'.scheduling \in {"threaded", "async"}) =>
        /\ logger'.raised = ""
        /\ logger'.scheduling = "threaded" =>
             IF ThreadsRunning(logger) = {}
             THEN /\ Len(logger'.threads) = Len(logger.threads) + 1
                  /\ logger'.events_thread = Len(logger'.threads)
                  /\ logger'.threads[logger'.events_thread].kind = "thread"
             ELSE logger'.threads = logger.threads
        /\ logger'.scheduling = "async" =>
             /\ Len(logger'.threads) = Len(logger.threads) + 1
             /\ logger'.threads[Len(logger'.threads)].kind = "task"

\* C31: push_events called with its default arguments starts pushing log events:
\* with scheduling 'threaded' a new pusher thread is started when none is running and
\* no second one while one is running (at most one pusher thread exists at any
\* time); with 'async' a task is scheduled that keeps pushing until stop_events is
\* called.
C31_PushEventsStartsOnePusher ==
    /\ [][PushEventsStarts]_vars
    /\ [](Cardinality(ThreadsRunning(logger)) <= 1)
    /\ [](TasksEnded(logger) # {} => logger.stop # "idle")

\* the records that stand in diff_logs
InDiffLogs(l) == {l.diff_logs[k].id : k \in 1..Len(l.diff_logs)}

\* a pusher's diff_logs.clear() removes only records that a batch has carried
ClearDropsNothing ==
    (logger'.diff_logs = <<>> /\ logger.diff_logs # <<>>) =>
        \A id \in InDiffLogs(logger) : logger'.pushed[id] >= 1

\* C33: while log pushing is enabled, every record emitted by emit is included in
\* exactly one pushed batch: under any interleaving of emit with the pusher's
\* push-then-clear of diff_logs no record is dropped without having been pushed and
\* none is pushed twice.
C33_EveryRecordInExactlyOneBatch ==
    /\ [][ClearDropsNothing]_vars
    /\ [](\A id \in DOMAIN logger.pushed : logger.pushed[id] <= 1)
    /\ [][(logger'.emitted = logger.emitted + 1 /\ logger.push_events) =>
              logger'.emitted \in InDiffLogs(logger')]_vars

\* stop_events is called while the thread held in _events_thread has been started
\* and has not ended
StopCalledWhilePushing ==
    /\ logger.stop = "joining"
    /\ Alive(logger.threads[logger.events_thread])

\* stop_events has returned: the thread is joined, _events_thread is None, the flag
\* is off and no pusher is left in its loop
StopReturned ==
    /\ logger.stop = "returned" /\ logger.events_thread = 0
    /\ ~logger.push_events
    /\ \A i \in 1..Len(logger.threads) : ~Alive(logger.threads[i])

\* once stop_events has returned no pusher pushes, and emit leaves diff_logs alone
QuietAfterStop ==
    logger.stop = "returned" =>
        /\ \A i \in 1..Len(logger.threads) :
             ~(logger.threads[i].pc = "push" /\ logger'.threads[i].pc = "clear")
        /\ logger'.emitted = logger.emitted + 1 => logger'.diff_logs = logger.diff_logs

\* C32: after stop_events is called while log events are being pushed, the pusher
\* loop eventually terminates, stop_events returns with the pusher thread joined and
\* _events_thread reset to None, no further log event is pushed, and records emitted
\* afterwards are no longer added to diff_logs.
C32_StopEventsEndsPushing ==
    /\ StopCalledWhilePushing ~> StopReturned
    /\ [][QuietAfterStop]_vars

\* the registry an implementation's register_type_replacement writes
RegistryOf(c, serializer) ==
    IF serializer = "SerpentSerializer" THEN c.serpent_classes ELSE c.replacements

\* a call of register_type_replacement: ValueError and both registries as they were
\* for what is not a class or is `type`; for a class, the class mapped to the given
\* function and every other registration as it was
RegisterRefusesOrMaps ==
    codec'.call.op = "register" =>
        LET object_type == codec'.call.type
            before == RegistryOf(codec, codec'.call.serializer)
            after == RegistryOf(codec', codec'.call.serializer)
        IN  IF object_type \in {"type", "an instance"}
            THEN /\ codec'.call.exc = "ValueError"
                 /\ codec'.replacements = codec.replacements
                 /\ codec'.serpent_classes = codec.serpent_classes
            ELSE /\ codec'.call.exc = ""
                 /\ DOMAIN after = DOMAIN before \cup {object_type}
                 /\ after[object_type] = codec'.call.fn
                 /\ \A cls \in DOMAIN before \ {object_type} : after[cls] = before[cls]
                 /\ RegistryOf(codec', "SerpentSerializer") # after =>
                        codec'.serpent_classes = codec.serpent_classes
                 /\ RegistryOf(codec', "JSONSerializer") # after =>
                        codec'.replacements = codec.replacements

\* a built-in rule of default() handles the value
BuiltinRule(obj) ==
    \/ obj.json # ""
    \/ obj.kind \in {"Enum", "set", "dict_keys", "deque", "tuple", "UUID", "datetime",
                     "date", "Decimal", "Exception", "array"}

\* a JSON implementation dumped a value that its encoder hands to default(), and the
\* class of the value has a registered replacement
DefaultCalledOnRegistered ==
    /\ codec.call.op = "dumps"
    /\ \/ codec.call.serializer = "JSONSerializer"
            /\ codec.call.obj.kind \notin MsgspecNative
       \/ codec.call.serializer = "PythonBuiltinJSONSerializer"
            /\ codec.call.obj.kind \notin BuiltinJSONNative
    /\ codec.call.obj.cls \in DOMAIN codec.replacements

ReplacementConsultedLast ==
    DefaultCalledOnRegistered =>
        /\ codec.call.exc = ""
        /\ codec.call.loaded =
             IF BuiltinRule(codec.call.obj) THEN Canonical(codec.call.obj)
             ELSE Apply(codec.replacements[codec.call.obj.cls], codec.call.obj)

\* C36: register_type_replacement refuses an object_type that is not a class or is
\* the type `type` itself with ValueError and leaves the registry unchanged; for a
\* class it maps the class to the given function, replacing any earlier registration,
\* and default() consults a registered replacement only for values that no built-in
\* rule already handles.
C36_RegisterRefusesNonClasses ==
    [][RegisterRefusesOrMaps]_vars /\ [](ReplacementConsultedLast)

\* `type` was refused while Point is registered with the second function given for it
C36_Witness ==
    /\ codec.call.op = "register" /\ codec.call.type = "type"
    /\ codec.call.exc = "ValueError"
    /\ "Point" \in DOMAIN codec.replacements /\ codec.replacements["Point"] = "to_items"
    /\ "Color" \in DOMAIN codec.replacements

\* the handler coroutine has returned or an exception has left it
HandlerLeft == pc \in {"done", "escaped"}

\* the verb passed the handler's gate: is_method_allowed of the current handlers,
\* the resource's instructions of the older one
VerbAllowed ==
    IF handler \in {"OldRPCHandler", "OldEventHandler"}
    THEN request.method \in resource.instructions
    ELSE response.status # 405

\* nothing is written or dispatched, and finish is not called again, once finish
\* has been called
FinishIsFinal ==
    response.finished >= 1 =>
        /\ response'.body = response.body
        /\ effects'.dispatches = effects.dispatches
        /\ response'.finished = response.finished

\* C35: for every request and every handler the Responded state is entered exactly
\* once and is final: finish is called exactly once on every path (401, 405, 503,
\* 500, 200 and the ConnectionError retry), nothing is written or dispatched after
\* finish, and a dispatch happens only after the request was authorized and its
\* verb allowed.
C35_FinishExactlyOnce ==
    /\ [](HandlerLeft => response.finished = 1)
    /\ [](response.finished <= 1)
    /\ [][FinishIsFinal]_vars
    /\ [](effects.dispatches # <<>> => (authorized = "yes" /\ VerbAllowed))

=============================================================================
